---- MODULE Spec2Model ----
(***************************************************************************)
(* A model of the moral-video workflow: the checkpoint manager             *)
(* (utils/checkpoint_manager.py), the six stage nodes (graph/nodes.py),    *)
(* the linear LangGraph workflow (graph/workflow.py), the resume path of   *)
(* the command line (main.py), the input gate (utils/validators.py,        *)
(* agents/context_analyzer.py), the script segmenter                       *)
(* (agents/script_segmenter.py), the pairing of images and segments and    *)
(* the narration of the video assembler (agents/video_assembler.py), the   *)
(* rate limiter of the search tool (tools/search_tool.py), the gTTS        *)
(* narration of the audio tool (tools/audio_tool.py) and the state helpers *)
(* should_retry (graph/nodes.py) and add_error (graph/state.py).           *)
(*                                                                         *)
(* Values are abstracted to the classes the code's tests distinguish:      *)
(* "None" (Python None), "Empty" (falsy but not None: "", [], {}) and      *)
(* "Some" (truthy).                                                        *)
(***************************************************************************)
EXTENDS Integers, Sequences, FiniteSets, TLC

(***************************************************************************)
(* Bounds of the model.                                                    *)
(***************************************************************************)
\* datetime.now() is a clock of ticks; the file name keeps whole seconds only.
TicksPerSecond == 2
\* The clock stops the model after this many ticks.
MaxClock == 3
\* CheckpointManager(retention_count = r) is built with 1 <= r <= MaxRetention.
MaxRetention == 2
\* The characters list of an input context has at most this many entries.
MaxChars == 2
\* An input differs from a well-formed one in at most this many places.
MaxDefects == 1
\* A story has at most this many paragraphs.
MaxParagraphs == 12
\* A paragraph has at most this many words.
MaxWords == 2
\* The LLM answers with at most this many segments.
MaxSegments == 2
\* The video assembler is given at most this many script segments.
MaxScenes == 3
\* One WebSearchTool serves at most this many search calls.
MaxSearches == 12
\* The retry counts of ErrorRecords and of retry_counts are 0..MaxRetryCount;
\* a state handed to should_retry holds at most MaxErrors ErrorRecords.
MaxRetryCount == 4
MaxErrors == 2

(***************************************************************************)
(* Program constants.                                                      *)
(***************************************************************************)
\* config.checkpoint_retention_count, the retention the stage nodes pass.
checkpoint_retention_count == 10
\* _fallback_segmentation makes segments of the first paragraphs only.
max_fallback_segments == 10
\* RateLimiter(max_calls=10, time_window=60.0): the window is in tenths of a
\* second, the unit of the clock of the limiter.
max_calls == 10
time_window == 600
\* generate_gtts_narration of AudioTool: the attempts it makes and the
\* seconds it sleeps after a failed attempt that is not the last.
max_retries == 5
retry_delay == 5
\* RetryConfig.max_retries, read by should_retry through get_config().
retry_max_retries == 3

step_order ==
    << "context_analyzer", "web_researcher", "story_generator",
       "script_segmenter", "character_designer", "video_assembler" >>

Steps == { step_order[i] : i \in 1..Len(step_order) }

StepIndex(s) == CHOOSE i \in 1..Len(step_order) : step_order[i] = s

\* The step names the checkpoint-manager specification saves under.
CkptSteps == { "context_analyzer", "web_researcher" }

VARIABLES
    files,      \* checkpoint_*.json of the workflow directory: file name -> content
    latest,     \* latest_checkpoint.json: a content, or NoFile
    clock,      \* datetime.now(), in ticks
    retention,  \* the retention_count of the CheckpointManager under test
    saved,      \* history: the timestamps of the saves that returned, oldest first
    lastSaved,  \* history: the last save that returned: its arguments and its path
    nsaves,     \* history: the number of save_checkpoint calls made
    pristine,   \* history: no save has raised and no file was damaged so far
    clean,      \* history: the last save returned and nothing was damaged since
    ckRes       \* the last read operation of the checkpoint manager and its result

ckptVars == << files, latest, clock, retention, saved, lastSaved, nsaves, pristine, clean, ckRes >>

VARIABLES
    auto_checkpoint, \* config.enable_auto_checkpoint
    pc,         \* the node the compiled graph invokes next: "idle", a step or "END"
    st,         \* the WorkflowState of the run
    invoked,    \* history: the nodes the graph has invoked, in order
    failedAt,   \* history: the index in invoked of the first node that returned
                \* status "failed", 0 if none did
    lastNode,   \* history: the path the last node invocation took
    reinvoke,   \* the last direct invocation of a node on a loaded checkpoint
    cli,        \* the last run of main.py with a resume option
    final_state, \* final_state of run_workflow_with_callbacks: the last output
                \* the stream of the graph gave, NoState for None
    call,       \* the last direct call of an agent or utility function: its
                \* name, its arguments and what it gave back
    callback,   \* progress_callback of the run: whether one was supplied, the
                \* nodes it was called for, in order, and whether it has raised
    limiter     \* the RateLimiter of a WebSearchTool, the clock of its process
                \* and the history of the calls it admitted

wfVars == << auto_checkpoint, pc, st, invoked, failedAt, lastNode, reinvoke, cli,
             final_state, call, callback, limiter >>

vars == << files, latest, clock, retention, saved, lastSaved, nsaves, pristine, clean,
           ckRes, auto_checkpoint, pc, st, invoked, failedAt, lastNode, reinvoke, cli,
           final_state, call, callback, limiter >>

(***************************************************************************)
(* Files.  A checkpoint file is named checkpoint_<step>_<YYYYmmdd_HHMMSS>  *)
(* .json: the pair <<step, second>>.  A content is what json.load finds.   *)
(***************************************************************************)
NoFile == [ exists |-> FALSE ]

NoPath == << >>

LatestPath == << "latest_checkpoint.json" >>

Sec(t) == t \div TicksPerSecond

TopKeys == { "workflow_id", "step_name", "timestamp", "last_completed_step", "state" }

\* The order of sorted(glob("checkpoint_*.json")): by step name, then by second.
StepRank(s) ==
    CASE s = "character_designer" -> 1
      [] s = "context_analyzer"   -> 2
      [] s = "script_segmenter"   -> 3
      [] s = "story_generator"    -> 4
      [] s = "video_assembler"    -> 5
      [] s = "web_researcher"     -> 6

FileNameLess(a, b) ==
    \/ StepRank(a[1]) < StepRank(b[1])
    \/ a[1] = b[1] /\ a[2] < b[2]

RECURSIVE SortedGlob(_)
SortedGlob(names) ==
    IF names = {} THEN << >>
    ELSE LET m == CHOOSE x \in names : \A y \in names \ {x} : FileNameLess(x, y)
         IN  << m >> \o SortedGlob(names \ {m})

\* json.load succeeds on the file.
Readable(c) == c.exists /\ c.readable

(***************************************************************************)
(* Values of a state dictionary as save_checkpoint sees them: a type tag   *)
(* (the isinstance tests of _serialize_state) and the value.               *)
(***************************************************************************)
Str(v) == [ type |-> "str", val |-> v ]
PathV(v) == [ type |-> "Path", val |-> v ]
PathList(v) == [ type |-> "list_Path", val |-> v ]

\* A faulty variant: only values that are JSON-native already are kept.
SerializeDropsPaths(state) ==
    LET keep == { k \in DOMAIN state : state[k].type \notin { "Path", "list_Path" } }
    IN  [ k \in keep |-> state[k] ]

\* CheckpointManager._serialize_state: a Path becomes its string, a list whose
\* first element is a Path becomes the list of strings, the rest is kept.
SerializeState(state) ==
    [ k \in DOMAIN state |->
        IF state[k].type = "Path" THEN [ type |-> "str", val |-> state[k].val ]
        ELSE IF state[k].type = "list_Path"
             THEN [ type |-> "list_str", val |-> state[k].val ]
             ELSE state[k] ]

\* CheckpointManager._deserialize_state: the JSON value as it is.
DeserializeState(state) == state

(***************************************************************************)
(* The checkpoint manager.  A disk is [files, latest].                      *)
(***************************************************************************)
Garbage == [ exists |-> TRUE, readable |-> FALSE ]

ReadFile(disk, path) ==
    IF path = LatestPath THEN disk.latest
    ELSE IF path \in DOMAIN disk.files THEN disk.files[path]
    ELSE NoFile

WriteFile(fs, path, content) ==
    [ f \in (DOMAIN fs) \cup { path } |-> IF f = path THEN content ELSE fs[f] ]

Unlink(fs, paths) == [ f \in (DOMAIN fs) \ paths |-> fs[f] ]

RemoveAt(seq, i) == SubSeq(seq, 1, i - 1) \o SubSeq(seq, i + 1, Len(seq))

\* checkpoints.sort(key = timestamp, reverse = True): a stable sort, so entries
\* of one timestamp keep the order of the sorted glob.
RECURSIVE SortNewestFirst(_)
SortNewestFirst(es) ==
    IF es = << >> THEN << >>
    ELSE LET i == CHOOSE j \in 1..Len(es) :
                    /\ \A k \in 1..Len(es) : es[k].timestamp <= es[j].timestamp
                    /\ \A k \in 1..(j - 1) : es[k].timestamp < es[j].timestamp
         IN  << es[i] >> \o SortNewestFirst(RemoveAt(es, i))

\* One entry of list_checkpoints; data.get("timestamp", "") sorts below every
\* timestamp, which -1 stands for.
ListEntry(fs, f) ==
    [ path      |-> f,
      step_name |-> IF "step_name" \in fs[f].keys THEN fs[f].step_name ELSE "unknown",
      timestamp |-> IF "timestamp" \in fs[f].keys THEN fs[f].timestamp ELSE -1 ]

RECURSIVE GlobEntries(_, _)
GlobEntries(fs, names) ==
    IF names = << >> THEN << >>
    ELSE IF Readable(fs[Head(names)])
         THEN << ListEntry(fs, Head(names)) >> \o GlobEntries(fs, Tail(names))
         ELSE GlobEntries(fs, Tail(names))

\* CheckpointManager.list_checkpoints: a file json.load cannot read is logged
\* and skipped; the rest is sorted newest first.
list_checkpoints(fs) == SortNewestFirst(GlobEntries(fs, SortedGlob(DOMAIN fs)))

\* CheckpointManager._cleanup_old_checkpoints
cleanup_old_checkpoints(fs, r) ==
    LET cps == list_checkpoints(fs)
    IN  IF Len(cps) > r
        THEN Unlink(fs, { cps[i].path : i \in (r + 1)..Len(cps) })
        ELSE fs

CheckpointData(state, step, now) ==
    [ exists              |-> TRUE,
      readable            |-> TRUE,
      keys                |-> TopKeys,
      workflow_id         |-> "wf",
      step_name           |-> step,
      timestamp           |-> now,
      last_completed_step |-> step,
      state               |-> SerializeState(state) ]

SaveOutcomes == { "ok", "dump_fail", "copy_fail" }

\* A faulty variant: latest_checkpoint.json is written only when it does not exist yet.
CopyLatestIfAbsent(old, content) == IF old.exists THEN old ELSE content

\* shutil.copy2(checkpoint_path, latest_path)
CopyLatest(old, content) == content

\* CheckpointManager.save_checkpoint.  outcome: "ok"; "dump_fail", open() has
\* created the file and json.dump raises; "copy_fail", shutil.copy2 raises.
save_checkpoint(disk, state, step, now, r, outcome) ==
    LET path    == << step, Sec(now) >>
        content == CheckpointData(state, step, now)
    IN  CASE outcome = "dump_fail" ->
               [ raised |-> TRUE, path |-> NoPath,
                 disk   |-> [ disk EXCEPT !.files = WriteFile(@, path, Garbage) ] ]
          [] outcome = "copy_fail" ->
               [ raised |-> TRUE, path |-> NoPath,
                 disk   |-> [ disk EXCEPT !.files = WriteFile(@, path, content) ] ]
          [] OTHER ->
               [ raised |-> FALSE, path |-> path,
                 disk   |-> [ files  |-> cleanup_old_checkpoints(
                                             WriteFile(disk.files, path, content), r),
                              latest |-> CopyLatest(disk.latest, content) ] ]

RequiredFields == { "workflow_id", "step_name", "state" }

\* A faulty variant: the required fields are not checked.
LoadWithoutValidation(disk, path) ==
    LET c == ReadFile(disk, path)
    IN  IF ~c.exists \/ ~c.readable
        THEN [ raised |-> TRUE, state |-> << >>, step_name |-> "" ]
        ELSE [ raised |-> FALSE, state |-> DeserializeState(c.state),
               step_name |-> c.step_name ]

\* CheckpointManager.load_checkpoint: FileNotFoundError, a json error or
\* ValueError (a required field is missing) is raised to the caller.
load_checkpoint(disk, path) ==
    LET c == ReadFile(disk, path)
    IN  IF ~c.exists \/ ~c.readable \/ ~(RequiredFields \subseteq c.keys)
        THEN [ raised |-> TRUE, state |-> << >>, step_name |-> "" ]
        ELSE [ raised |-> FALSE, state |-> DeserializeState(c.state),
               step_name |-> c.step_name ]

\* CheckpointManager.get_latest_checkpoint
get_latest_checkpoint(disk) ==
    IF disk.latest.exists THEN LatestPath
    ELSE LET cps == list_checkpoints(disk.files)
         IN  IF cps # << >> THEN cps[1].path ELSE NoPath

\* CheckpointManager.get_checkpoint_for_step
get_checkpoint_for_step(disk, step) ==
    LET cps  == list_checkpoints(disk.files)
        hits == { i \in 1..Len(cps) : cps[i].step_name = step }
    IN  IF hits = {} THEN NoPath
        ELSE cps[CHOOSE i \in hits : \A j \in hits : i <= j].path

(***************************************************************************)
(* The checkpoint manager used on its own: saves under any step name at    *)
(* any time, damage to the files from outside, and the read operations.    *)
(***************************************************************************)
Disk == [ files |-> files, latest |-> latest ]

\* State dictionaries handed to save_checkpoint.
StateSamples ==
    { [ status |-> Str("running"), progress |-> Str("0.1") ],
      [ status |-> Str("completed"), final_video_path |-> PathV("video.mp4"),
        scene_images |-> PathList("images") ] }

NoSave == [ path |-> NoPath, step |-> "", state |-> << >>, timestamp |-> -1 ]

NoRes == [ op |-> "none", raised |-> FALSE, bad |-> FALSE, present |-> FALSE ]

\* The file is missing, unreadable or lacks a required top-level key.
Bad(c) == ~c.exists \/ ~c.readable \/ ~(RequiredFields \subseteq c.keys)

CkptInit ==
    /\ files = << >>
    /\ latest = NoFile
    /\ clock = 0
    /\ retention \in 1..MaxRetention
    /\ saved = << >>
    /\ lastSaved = NoSave
    /\ nsaves = 0
    /\ pristine = TRUE
    /\ clean = FALSE
    /\ ckRes = NoRes

\* No workflow state: no run was started in this process.
NoState == << >>

NoNode == [ node |-> "none", path |-> "none", agent_called |-> FALSE,
            saved |-> FALSE, write_raised |-> FALSE, status |-> "None",
            video |-> "None" ]

NoReinvoke == [ node |-> "none", path |-> "none", agent_called |-> FALSE,
                wrote |-> FALSE, state |-> NoState, patch |-> NoState ]

NoCli == [ mode |-> "none", exit_code |-> -1, reason |-> "none",
           resume_state |-> NoState, resume_from_step |-> "None",
           validated |-> FALSE, run_started |-> FALSE ]

\* No agent or utility function has been called directly.
NoCall == [ fn |-> "none" ]

\* No run has been given a progress callback.
NoCallback == [ supplied |-> FALSE, calls |-> << >>, raised |-> FALSE ]

\* RateLimiter(max_calls, time_window) as constructed: self.calls = [].  now
\* is time.time() in tenths of a second, admitted the history of the times
\* at which wait_if_needed let a call through, inside the length of
\* self.calls the last call found after its first clean-up and waited the
\* time it slept.
NoLimiter == [ calls |-> << >>, now |-> 0, admitted |-> << >>, inside |-> 0,
               waited |-> 0 ]

\* No workflow runs: the process uses the checkpoint manager only.
WfIdle ==
    /\ pc = "idle"
    /\ st = NoState
    /\ invoked = << >>
    /\ failedAt = 0
    /\ lastNode = NoNode
    /\ reinvoke = NoReinvoke
    /\ cli = NoCli
    /\ final_state = NoState
    /\ call = NoCall
    /\ callback = NoCallback
    /\ limiter = NoLimiter

InitCkpt == CkptInit /\ WfIdle /\ auto_checkpoint = TRUE

\* manager.save_checkpoint(state, step, workflow_id)
CkSave ==
    /\ clock < MaxClock
    /\ \E step \in CkptSteps, state \in StateSamples, outcome \in SaveOutcomes :
         LET r == save_checkpoint(Disk, state, step, clock, retention, outcome)
         IN  /\ files' = r.disk.files
             /\ latest' = r.disk.latest
             /\ saved' = IF r.raised THEN saved ELSE Append(saved, clock)
             /\ lastSaved' = IF r.raised THEN lastSaved
                             ELSE [ path |-> r.path, step |-> step,
                                    state |-> state, timestamp |-> clock ]
             /\ pristine' = (pristine /\ ~r.raised)
             /\ clean' = ~r.raised
    /\ clock' = clock + 1
    /\ nsaves' = nsaves + 1
    /\ UNCHANGED << retention, ckRes >>
    /\ UNCHANGED wfVars

\* Time passes between two calls: the clock reaches the next second.
CkWait ==
    /\ (Sec(clock) + 1) * TicksPerSecond <= MaxClock
    /\ clock' = (Sec(clock) + 1) * TicksPerSecond
    /\ UNCHANGED << files, latest, retention, saved, lastSaved, nsaves, pristine,
                    clean, ckRes >>
    /\ UNCHANGED wfVars

DamageKinds == { "garbage", "no_state" }

Damaged(c, kind) ==
    CASE kind = "garbage"  -> Garbage
      [] kind = "no_state" -> [ c EXCEPT !.keys = @ \ { "state" } ]

\* A file of the workflow directory is damaged from outside the program, after
\* a save has returned.
CkDamage ==
    /\ clean
    /\ \E kind \in DamageKinds :
         \/ /\ Readable(latest) /\ latest.keys = TopKeys
            /\ latest' = Damaged(latest, kind)
            /\ files' = files
         \/ \E f \in DOMAIN files :
              /\ Readable(files[f]) /\ files[f].keys = TopKeys
              /\ files' = [ files EXCEPT ![f] = Damaged(@, kind) ]
              /\ latest' = latest
    /\ pristine' = FALSE
    /\ clean' = FALSE
    /\ UNCHANGED << clock, retention, saved, lastSaved, nsaves, ckRes >>
    /\ UNCHANGED wfVars

\* The paths a caller can hold: the files there are, the path the last save
\* returned (its file may be gone since) and latest_checkpoint.json.
KnownPaths ==
    (DOMAIN files) \cup { LatestPath }
        \cup (IF lastSaved.path = NoPath THEN {} ELSE { lastSaved.path })

\* manager.load_checkpoint(path)
CkLoad ==
    /\ \E path \in KnownPaths :
         ckRes' = [ op      |-> "load",
                    raised  |-> load_checkpoint(Disk, path).raised,
                    bad     |-> Bad(ReadFile(Disk, path)),
                    present |-> ReadFile(Disk, path).exists ]
    /\ UNCHANGED << files, latest, clock, retention, saved, lastSaved, nsaves,
                    pristine, clean >>
    /\ UNCHANGED wfVars

\* manager.list_checkpoints(workflow_id): it raises nothing, whatever it reads.
CkList ==
    /\ ckRes' = [ op      |-> "list",
                  raised  |-> FALSE,
                  bad     |-> \E f \in DOMAIN files : Bad(files[f]),
                  present |-> FALSE ]
    /\ UNCHANGED << files, latest, clock, retention, saved, lastSaved, nsaves,
                    pristine, clean >>
    /\ UNCHANGED wfVars

\* manager.get_latest_checkpoint(workflow_id): the path is returned unread.
CkGetLatest ==
    /\ ckRes' = [ op      |-> "get_latest",
                  raised  |-> FALSE,
                  bad     |-> IF latest.exists THEN Bad(latest)
                              ELSE \E f \in DOMAIN files : Bad(files[f]),
                  present |-> FALSE ]
    /\ UNCHANGED << files, latest, clock, retention, saved, lastSaved, nsaves,
                    pristine, clean >>
    /\ UNCHANGED wfVars

\* manager.get_checkpoint_for_step(workflow_id, step_name)
CkGetForStep ==
    /\ \E step \in CkptSteps :
         ckRes' = [ op      |-> "get_checkpoint_for_step",
                    raised  |-> FALSE,
                    bad     |-> \E f \in DOMAIN files : Bad(files[f]),
                    present |-> FALSE ]
    /\ UNCHANGED << files, latest, clock, retention, saved, lastSaved, nsaves,
                    pristine, clean >>
    /\ UNCHANGED wfVars

CkptNext ==
    \/ CkSave
    \/ CkWait
    \/ CkDamage
    \/ CkLoad
    \/ CkList
    \/ CkGetLatest
    \/ CkGetForStep

SpecCkpt == InitCkpt /\ [][CkptNext]_vars

(***************************************************************************)
(* The workflow state (graph/state.py).  valid_input stands for            *)
(* input_context: whether validate_input accepts it.  progress is in       *)
(* percent.  errors holds the ErrorRecords, retry_counts the agents that   *)
(* have an entry.                                                          *)
(***************************************************************************)
create_initial_state(valid) ==
    [ valid_input            |-> valid,
      validated_context      |-> "None",
      search_queries         |-> "None",
      research_results       |-> "None",
      research_summary       |-> "None",
      generated_story        |-> "None",
      story_metadata         |-> "None",
      script_segments        |-> "None",
      character_descriptions |-> "None",
      scene_images           |-> "None",
      final_video_path       |-> "None",
      errors                 |-> << >>,
      retry_counts           |-> {},
      current_agent          |-> "None",
      progress               |-> 0,
      status                 |-> "running",
      checkpoint_path        |-> NoPath,
      last_completed_step    |-> "None" ]

\* Python truthiness of a value class: None, "", [] and {} are falsy; a list
\* of absent images ([None, ...]) is a non-empty list.
Truthy(v) == v \in { "Some", "AllAbsent" }

update_progress(s, agent_name, progress_value) ==
    [ current_agent |-> agent_name,
      progress      |-> IF progress_value < 0 THEN 0
                        ELSE IF progress_value > 100 THEN 100 ELSE progress_value ]

add_error(s, agent_name, error_type) ==
    [ errors       |-> << [ agent |-> agent_name, error_type |-> error_type ] >>,
      retry_counts |-> s.retry_counts \cup { agent_name } ]

\* A faulty variant: the except handlers put the progress back to 0.
FailedPatchResetsProgress(s, agent_name, error_type) ==
    [ status |-> "failed", progress |-> 0 ] @@ add_error(s, agent_name, error_type)

\* The patch of the except handlers that fail the stage.
FailedPatch(s, agent_name, error_type) ==
    [ status |-> "failed" ] @@ add_error(s, agent_name, error_type)

\* LangGraph merges a node's patch into the state: errors is
\* Annotated[..., operator.add], every other key is overwritten.
ApplyPatch(s, p) ==
    [ k \in DOMAIN s |->
        IF k \notin DOMAIN p THEN s[k]
        ELSE IF k = "errors" THEN s[k] \o p[k] ELSE p[k] ]

\* merged_state = {**state, **result}
DictMerge(s, p) == [ k \in DOMAIN s |-> IF k \in DOMAIN p THEN p[k] ELSE s[k] ]

\* The state dictionary as save_checkpoint takes it: the nodes keep paths as
\* strings, so every value is JSON-native.
StateDict(s) == [ k \in DOMAIN s |-> [ type |-> "json", val |-> s[k] ] ]

\* The state dictionary a loaded checkpoint gives back to its caller.
FromDict(d) == [ k \in DOMAIN d |-> d[k].val ]

\* What can happen to the writes of a node's checkpoint block: all succeed,
\* the write of an intermediate artifact raises, json.dump of the checkpoint
\* raises, or the copy to latest_checkpoint.json raises.
WriteOutcomes == { "ok", "artifact_fail", "dump_fail", "copy_fail" }

\* result["checkpoint_path"] = str(checkpoint_path), unless save_checkpoint
\* raised.
CheckpointSaved(sv, result) ==
    IF sv.raised
    THEN [ raised |-> TRUE, result |-> result, disk |-> sv.disk, ticks |-> 1,
           saved |-> FALSE ]
    ELSE [ raised |-> FALSE, result |-> [ checkpoint_path |-> sv.path ] @@ result,
           disk |-> sv.disk, ticks |-> 1, saved |-> TRUE ]

\* The checkpoint block of a node: the artifacts, then save_checkpoint of
\* the merged state, whose path goes into the result.
StageCheckpoint(s, result, step, w, disk, now, auto) ==
    IF ~auto
    THEN [ raised |-> FALSE, result |-> result, disk |-> disk, ticks |-> 0,
           saved |-> FALSE ]
    ELSE IF w = "artifact_fail"
    THEN [ raised |-> TRUE, result |-> result, disk |-> disk, ticks |-> 0,
           saved |-> FALSE ]
    ELSE CheckpointSaved(save_checkpoint(disk, StateDict(DictMerge(s, result)), step,
                                         now, checkpoint_retention_count, w), result)

\* What a node invocation did: the patch it returned, the disk it left, the
\* clock ticks it took, the path through the node ("skip", "early", "ok",
\* "error"), whether it called its agent, whether its checkpoint was saved,
\* whether a write of its checkpoint block raised, and what assemble_video
\* returned.
NodeReturn(path, patch, disk) ==
    [ patch |-> patch, disk |-> disk, ticks |-> 0, path |-> path,
      agent_called |-> FALSE, saved |-> FALSE, write_raised |-> FALSE,
      video |-> "None" ]

\* The end of a node's try block: the checkpoint block, then return result;
\* a write that raises lands in the except handler, whose patch is onError.
ReturnOrHandle(ck, onError, video) ==
    [ patch        |-> IF ck.raised THEN onError ELSE ck.result,
      disk         |-> ck.disk,
      ticks        |-> ck.ticks,
      path         |-> IF ck.raised THEN "error" ELSE "ok",
      agent_called |-> TRUE,
      saved        |-> ck.saved,
      write_raised |-> ck.raised,
      video        |-> video ]

ReturnResult(s, result, step, w, disk, now, auto, onError, video) ==
    ReturnOrHandle(StageCheckpoint(s, result, step, w, disk, now, auto), onError, video)

\* An exception of the agent, or of the node's own code, before the
\* checkpoint block.
Raised(patch, disk, called, video) ==
    [ NodeReturn("error", patch, disk) EXCEPT !.agent_called = called,
                                              !.video = video ]

(***************************************************************************)
(* The stage nodes (graph/nodes.py).  A node takes the state, what its     *)
(* agent does (out), what the writes of its checkpoint block do (w), the   *)
(* disk, the clock and config.enable_auto_checkpoint.                      *)
(***************************************************************************)
\* What the agent of a step can do on a state.  analyze raises exactly when
\* the input fails validation, and a valid input may still yield no search
\* queries; research and assemble_video catch their own exceptions (a search
\* or an LLM that raises makes research return empty results and a
\* placeholder summary, as when nothing is found); generate
\* re-raises and can return an empty story; segment has a fallback that
\* always returns segments; design_characters can return {} and
\* generate_scene_images a list of images, a list of absent images or [].
AgentOutcomes(step, s) ==
    CASE step = "context_analyzer" ->
           IF s.valid_input THEN { "queries", "no_queries" } ELSE { "invalid" }
      [] step = "web_researcher"   -> { "found", "nothing", "raises" }
      [] step = "story_generator"  ->
           IF s.validated_context = "None" THEN { "raise" }
           ELSE { "story", "empty_story", "raise" }
      [] step = "script_segmenter" -> { "segments" }
      [] step = "character_designer" ->
           { << d, i >> : d \in { "designs", "no_designs" },
                          i \in { "images", "all_absent", "exception" } }
      [] step = "video_assembler"  -> { "video", "none" }

context_analyzer_node(s, out, w, disk, now, auto) ==
    LET failed == FailedPatch(s, "context_analyzer", "ContextAnalysisError")
    IN  IF Truthy(s.validated_context) /\ Truthy(s.search_queries)
        THEN NodeReturn("skip",
                 [ current_agent       |-> "context_analyzer",
                   progress            |-> 10,
                   validated_context   |-> s.validated_context,
                   search_queries      |-> s.search_queries,
                   last_completed_step |-> "context_analyzer" ], disk)
        ELSE IF out = "invalid" THEN Raised(failed, disk, TRUE, "None")
        ELSE ReturnResult(s,
                 [ validated_context   |-> "Some",
                   search_queries      |-> IF out = "queries" THEN "Some" ELSE "Empty",
                   last_completed_step |-> "context_analyzer" ]
                     @@ update_progress(s, "context_analyzer", 10),
                 "context_analyzer", w, disk, now, auto, failed, "None")

\* A faulty variant: the handler fails the stage, as those of the other
\* nodes do.
DegradedAsFailed(s) == FailedPatch(s, "web_researcher", "WebResearchError")

\* The except handler of web_researcher_node.  Graceful degradation: it
\* records the error and returns empty research, and does not fail the stage.
DegradedPatch(s) ==
    [ research_results |-> "Empty", research_summary |-> "Some" ]
        @@ update_progress(s, "web_researcher", 20)
        @@ add_error(s, "web_researcher", "WebResearchError")

web_researcher_node(s, out, w, disk, now, auto) ==
    LET progress_update == update_progress(s, "web_researcher", 20)
        degraded == DegradedPatch(s)
    IN  IF s.research_results # "None" /\ s.research_summary # "None"
        THEN NodeReturn("skip",
                 [ current_agent       |-> "web_researcher",
                   progress            |-> 20,
                   research_results    |-> s.research_results,
                   research_summary    |-> s.research_summary,
                   last_completed_step |-> "web_researcher" ], disk)
        ELSE IF ~Truthy(s.search_queries)
        THEN NodeReturn("early",
                 [ research_results |-> "Empty", research_summary |-> "Some" ]
                     @@ progress_update, disk)
        ELSE IF s.validated_context = "None" THEN Raised(degraded, disk, FALSE, "None")
        ELSE ReturnResult(s,
                 [ research_results    |-> IF out = "found" THEN "Some" ELSE "Empty",
                   research_summary    |-> "Some",
                   last_completed_step |-> "web_researcher" ] @@ progress_update,
                 "web_researcher", w, disk, now, auto, degraded, "None")

story_generator_node(s, out, w, disk, now, auto) ==
    LET failed == FailedPatch(s, "story_generator", "StoryGenerationError")
    IN  IF Truthy(s.generated_story) /\ Truthy(s.story_metadata)
        THEN NodeReturn("skip",
                 [ current_agent       |-> "story_generator",
                   progress            |-> 35,
                   generated_story     |-> s.generated_story,
                   story_metadata      |-> s.story_metadata,
                   last_completed_step |-> "story_generator" ], disk)
        ELSE IF out = "raise" THEN Raised(failed, disk, TRUE, "None")
        ELSE ReturnResult(s,
                 [ generated_story     |-> IF out = "story" THEN "Some" ELSE "Empty",
                   story_metadata      |-> "Some",
                   last_completed_step |-> "story_generator" ]
                     @@ update_progress(s, "story_generator", 35),
                 "story_generator", w, disk, now, auto, failed, "None")

\* A faulty variant: script_segmenter_node without the test for segments
\* already in the state.
SegmenterNeverSkips(s, out, w, disk, now, auto) ==
    IF s.validated_context = "None" \/ ~Truthy(s.generated_story)
    THEN Raised(FailedPatch(s, "script_segmenter", "ScriptSegmentationError"),
                disk, FALSE, "None")
    ELSE ReturnResult(s,
             [ script_segments     |-> "Some",
               last_completed_step |-> "script_segmenter" ]
                 @@ update_progress(s, "script_segmenter", 50),
             "script_segmenter", w, disk, now, auto,
             FailedPatch(s, "script_segmenter", "ScriptSegmentationError"), "None")

script_segmenter_node(s, out, w, disk, now, auto) ==
    LET failed == FailedPatch(s, "script_segmenter", "ScriptSegmentationError")
    IN  IF Truthy(s.script_segments)
        THEN NodeReturn("skip",
                 [ current_agent       |-> "script_segmenter",
                   progress            |-> 50,
                   script_segments     |-> s.script_segments,
                   last_completed_step |-> "script_segmenter" ], disk)
        \* validated_context.get on None, then "No story generated"
        ELSE IF s.validated_context = "None" \/ ~Truthy(s.generated_story)
        THEN Raised(failed, disk, FALSE, "None")
        ELSE ReturnResult(s,
                 [ script_segments     |-> "Some",
                   last_completed_step |-> "script_segmenter" ]
                     @@ update_progress(s, "script_segmenter", 50),
                 "script_segmenter", w, disk, now, auto, failed, "None")

character_designer_node(s, out, w, disk, now, auto) ==
    LET failed == FailedPatch(s, "character_designer", "CharacterDesignError")
    IN  IF Truthy(s.character_descriptions) /\ Truthy(s.scene_images)
        THEN NodeReturn("skip",
                 [ current_agent          |-> "character_designer",
                   progress               |-> 65,
                   character_descriptions |-> s.character_descriptions,
                   scene_images           |-> s.scene_images,
                   last_completed_step    |-> "character_designer" ], disk)
        \* design_characters is called first; it cannot read a None context,
        \* and then "No script segments available"
        ELSE IF s.validated_context = "None" \/ ~Truthy(s.script_segments)
        THEN Raised(failed, disk, TRUE, "None")
        ELSE ReturnResult(s,
                 [ character_descriptions |-> IF out[1] = "designs" THEN "Some"
                                              ELSE "Empty",
                   scene_images           |-> CASE out[2] = "images"     -> "Some"
                                                [] out[2] = "all_absent" -> "AllAbsent"
                                                [] OTHER                 -> "Empty",
                   last_completed_step    |-> "character_designer" ]
                     @@ update_progress(s, "character_designer", 65),
                 "character_designer", w, disk, now, auto, failed, "None")

\* A faulty variant: the result of assemble_video is not tested.
VideoNeverMissing(final_video_path) == FALSE

\* if not final_video_path: raise ValueError("Failed to assemble video")
VideoMissing(final_video_path) == ~Truthy(final_video_path)

\* A faulty variant: the list of scene images is not tested.
SceneImagesNeverTested(scene_images) == FALSE

\* scene_image_paths = [Path(img) for img in scene_images if img], which
\* raises on a None scene_images, and
\* if not scene_image_paths: raise ValueError("No scene images available")
NoSceneImages(scene_images) == scene_images # "Some"

video_assembler_node(s, out, w, disk, now, auto) ==
    LET failed == FailedPatch(s, "video_assembler", "VideoAssemblyError")
        final_video_path == IF out = "video" THEN "Some" ELSE "None"
    IN  IF Truthy(s.final_video_path) /\ s.status = "completed"
        THEN NodeReturn("skip",
                 [ current_agent       |-> "video_assembler",
                   progress            |-> 100,
                   final_video_path    |-> s.final_video_path,
                   status              |-> "completed",
                   last_completed_step |-> "video_assembler" ], disk)
        \* {**validated_context} on None, iterating a None scene_images, and
        \* "No scene images available" when no entry is a path
        ELSE IF s.validated_context = "None" \/ NoSceneImages(s.scene_images)
        THEN Raised(failed, disk, FALSE, "None")
        ELSE IF VideoMissing(final_video_path)
        THEN Raised(failed, disk, TRUE, final_video_path)
        ELSE ReturnResult(s,
                 [ final_video_path    |-> "Some",
                   status              |-> "completed",
                   progress            |-> 100,
                   last_completed_step |-> "video_assembler" ]
                     @@ update_progress(s, "video_assembler", 90),
                 "video_assembler", w, disk, now, auto, failed, final_video_path)

\* The skip condition of each node, as tests/test_node_skip.py states them.
SkipCondition(step, s) ==
    CASE step = "context_analyzer" ->
           Truthy(s.validated_context) /\ Truthy(s.search_queries)
      [] step = "web_researcher" ->
           s.research_results # "None" /\ s.research_summary # "None"
      [] step = "story_generator" ->
           Truthy(s.generated_story) /\ Truthy(s.story_metadata)
      [] step = "script_segmenter" -> Truthy(s.script_segments)
      [] step = "character_designer" ->
           Truthy(s.character_descriptions) /\ Truthy(s.scene_images)
      [] step = "video_assembler" ->
           Truthy(s.final_video_path) /\ s.status = "completed"

\* The fields the skip path of a node returns from the state.
SkipFields(step) ==
    CASE step = "context_analyzer"   -> { "validated_context", "search_queries" }
      [] step = "web_researcher"     -> { "research_results", "research_summary" }
      [] step = "story_generator"    -> { "generated_story", "story_metadata" }
      [] step = "script_segmenter"   -> { "script_segments" }
      [] step = "character_designer" -> { "character_descriptions", "scene_images" }
      [] step = "video_assembler"    -> { "final_video_path", "status" }

\* The progress each stage reports, in percent.
NominalProgress(step) ==
    CASE step = "context_analyzer"   -> 10
      [] step = "web_researcher"     -> 20
      [] step = "story_generator"    -> 35
      [] step = "script_segmenter"   -> 50
      [] step = "character_designer" -> 65
      [] step = "video_assembler"    -> 100

\* workflow.add_node(name, function)
Node(step, s, out, w, disk, now, auto) ==
    CASE step = "context_analyzer"   -> context_analyzer_node(s, out, w, disk, now, auto)
      [] step = "web_researcher"     -> web_researcher_node(s, out, w, disk, now, auto)
      [] step = "story_generator"    -> story_generator_node(s, out, w, disk, now, auto)
      [] step = "script_segmenter"   -> script_segmenter_node(s, out, w, disk, now, auto)
      [] step = "character_designer" -> character_designer_node(s, out, w, disk, now, auto)
      [] step = "video_assembler"    -> video_assembler_node(s, out, w, disk, now, auto)

\* A faulty variant: the edge out of context_analyzer is wired to
\* story_generator.
EdgeMiswired(step) ==
    IF step = "context_analyzer" THEN "story_generator"
    ELSE IF StepIndex(step) < Len(step_order) THEN step_order[StepIndex(step) + 1]
    ELSE "END"

\* workflow.add_edge(step, next): every edge is unconditional.
Edge(step) ==
    IF StepIndex(step) < Len(step_order) THEN step_order[StepIndex(step) + 1]
    ELSE "END"

(***************************************************************************)
(* The workflow run (graph/workflow.py) and the command line (main.py).    *)
(***************************************************************************)
WfInit ==
    /\ auto_checkpoint \in BOOLEAN
    /\ WfIdle

Init ==
    /\ files = << >>
    /\ latest = NoFile
    /\ clock = 0
    /\ retention = checkpoint_retention_count
    /\ saved = << >>
    /\ lastSaved = NoSave
    /\ nsaves = 0
    /\ pristine = TRUE
    /\ clean = FALSE
    /\ ckRes = NoRes
    /\ WfInit

ckptHistory == << retention, lastSaved, nsaves, pristine, clean, ckRes >>

\* run_workflow_with_callbacks(input_context, input_preferences,
\* progress_callback, workflow_id), called from a library caller: the run
\* starts from create_initial_state at the entry point.
StartRun ==
    /\ pc = "idle"
    /\ cli = NoCli
    /\ \E valid \in BOOLEAN : st' = create_initial_state(valid)
    /\ pc' = "context_analyzer"
    /\ final_state' = NoState
    /\ \E supplied \in BOOLEAN :
         callback' = [ supplied |-> supplied, calls |-> << >>, raised |-> FALSE ]
    /\ UNCHANGED << files, latest, clock, saved, ckptHistory, call, limiter, auto_checkpoint,
                    invoked, failedAt, lastNode, reinvoke, cli >>

\* if progress_callback and isinstance(node_state, dict): the callback is
\* called with the output of the node; it returns or raises.
ProgressCallback(cb, step, raises) ==
    IF cb.supplied
    THEN [ cb EXCEPT !.calls = Append(@, step), !.raised = @ \/ raises ]
    ELSE cb

\* A variant of AfterCallback in which an exception of the callback leaves
\* the loop over the stream.
CallbackPropagates(step, raised) == IF raised THEN "END" ELSE Edge(step)

\* except Exception: the exception of the callback is logged and the loop
\* takes the next output of the stream.
AfterCallback(step, raised) == Edge(step)

\* The compiled graph has invoked the node of step: it merges the patch r
\* that the node returned into the state and follows the edge out of step.
\* workflow.stream yields {step: patch}, the update of the node, and the
\* loop of run_workflow_with_callbacks keeps it as final_state.
Deliver(step, r) ==
    /\ st' = ApplyPatch(st, r.patch)
    /\ files' = r.disk.files
    /\ latest' = r.disk.latest
    /\ clock' = clock + r.ticks
    /\ saved' = IF r.saved THEN Append(saved, clock) ELSE saved
    /\ failedAt' = IF /\ failedAt = 0
                      /\ "status" \in DOMAIN r.patch
                      /\ r.patch.status = "failed"
                   THEN Len(invoked) + 1 ELSE failedAt
    /\ lastNode' = [ node |-> step, path |-> r.path,
                     agent_called |-> r.agent_called, saved |-> r.saved,
                     write_raised |-> r.write_raised,
                     status |-> IF "status" \in DOMAIN r.patch THEN r.patch.status
                                ELSE "None",
                     video |-> r.video ]
    /\ invoked' = Append(invoked, step)
    /\ \E raises \in BOOLEAN :
         /\ callback' = ProgressCallback(callback, step, raises)
         /\ pc' = AfterCallback(step, callback.supplied /\ raises)
    /\ final_state' = r.patch
    /\ UNCHANGED << ckptHistory, call, limiter, auto_checkpoint, reinvoke, cli >>

\* return final_state if final_state else initial_state: what
\* run_workflow_with_callbacks returns once the stream has ended.  Every node
\* returns a non-empty patch and the graph state is then no longer the
\* initial one.
RunResult == IF final_state # NoState THEN final_state ELSE create_initial_state(TRUE)

\* final_state.get("errors", [])
ErrorsOf(d) == IF "errors" \in DOMAIN d THEN d.errors ELSE << >>

ContextAnalyzerStep ==
    /\ pc = "context_analyzer"
    /\ \E out \in AgentOutcomes("context_analyzer", st), w \in WriteOutcomes :
         Deliver("context_analyzer",
                 context_analyzer_node(st, out, w, Disk, clock, auto_checkpoint))

WebResearcherStep ==
    /\ pc = "web_researcher"
    /\ \E out \in AgentOutcomes("web_researcher", st), w \in WriteOutcomes :
         Deliver("web_researcher",
                 web_researcher_node(st, out, w, Disk, clock, auto_checkpoint))

StoryGeneratorStep ==
    /\ pc = "story_generator"
    /\ \E out \in AgentOutcomes("story_generator", st), w \in WriteOutcomes :
         Deliver("story_generator",
                 story_generator_node(st, out, w, Disk, clock, auto_checkpoint))

ScriptSegmenterStep ==
    /\ pc = "script_segmenter"
    /\ \E out \in AgentOutcomes("script_segmenter", st), w \in WriteOutcomes :
         Deliver("script_segmenter",
                 script_segmenter_node(st, out, w, Disk, clock, auto_checkpoint))

CharacterDesignerStep ==
    /\ pc = "character_designer"
    /\ \E out \in AgentOutcomes("character_designer", st), w \in WriteOutcomes :
         Deliver("character_designer",
                 character_designer_node(st, out, w, Disk, clock, auto_checkpoint))

VideoAssemblerStep ==
    /\ pc = "video_assembler"
    /\ \E out \in AgentOutcomes("video_assembler", st), w \in WriteOutcomes :
         Deliver("video_assembler",
                 video_assembler_node(st, out, w, Disk, clock, auto_checkpoint))

\* A node function called directly on the state of a checkpoint of its own
\* step, as a resumed run does: a checkpoint whose save returned to its
\* node.  One such call is made per behaviour.
ReinvokeResult(step, s, r) ==
    /\ reinvoke' = [ node |-> step, path |-> r.path, agent_called |-> r.agent_called,
                     wrote |-> (r.saved \/ r.write_raised \/ r.disk # Disk),
                     state |-> s, patch |-> r.patch ]
    /\ files' = r.disk.files
    /\ latest' = r.disk.latest
    /\ clock' = clock + r.ticks
    /\ saved' = IF r.saved THEN Append(saved, clock) ELSE saved

ReinvokeOn(step, s) ==
    \E out \in AgentOutcomes(step, s), w \in WriteOutcomes :
        ReinvokeResult(step, s, Node(step, s, out, w, Disk, clock, auto_checkpoint))

ReinvokeNode ==
    /\ pc = "END"
    /\ reinvoke = NoReinvoke
    /\ cli = NoCli
    /\ \E f \in DOMAIN files :
         /\ ~load_checkpoint(Disk, f).raised
         /\ \E i \in 1..Len(saved) : saved[i] = files[f].timestamp
         /\ ReinvokeOn(load_checkpoint(Disk, f).step_name,
                       FromDict(load_checkpoint(Disk, f).state))
    /\ UNCHANGED << ckptHistory, call, limiter, auto_checkpoint, pc, st, invoked, failedAt,
                    lastNode, cli, final_state, callback >>

\* The parameters of run_workflow_with_callbacks.
RunWorkflowParams ==
    { "input_context", "input_preferences", "progress_callback", "workflow_id" }

\* The keyword arguments main passes to run_workflow_with_callbacks.
MainCallKwargs ==
    { "input_context", "input_preferences", "progress_callback", "workflow_id",
      "resume_state", "resume_from_step" }

\* A Python call with a keyword the function does not declare raises
\* TypeError before the function body runs.
AcceptsCall(params, kwargs) == kwargs \subseteq params

CliModes == { "run", "resume", "resume_from_step", "checkpoint_path", "list_checkpoints" }

\* A path no file has.
MissingPath == << "missing", 0 >>

\* sys.exit(code) before the workflow is called, and why.
Exit(code, reason) ==
    [ exit_code |-> code, reason |-> reason, resume_state |-> NoState,
      resume_from_step |-> "None" ]

\* resume_state, _ = load_checkpoint(checkpoint_path): an exception of
\* load_checkpoint is not caught, and the process ends with exit code 1.
Loaded(ld, from) ==
    IF ld.raised THEN Exit(1, "load_error")
    ELSE [ exit_code |-> -1, reason |-> "none", resume_state |-> FromDict(ld.state),
           resume_from_step |-> from ]

\* --resume: the stage after the one of the latest checkpoint, or exit 0
\* when that was the last stage.
AfterLatest(ld) ==
    IF ld.raised THEN Exit(1, "load_error")
    ELSE IF ld.step_name \notin Steps THEN Loaded(ld, "None")
    ELSE IF StepIndex(ld.step_name) < Len(step_order)
    THEN Loaded(ld, step_order[StepIndex(ld.step_name) + 1])
    ELSE [ exit_code |-> 0, reason |-> "already_completed",
           resume_state |-> FromDict(ld.state), resume_from_step |-> "None" ]

\* The checkpoint at path p.
LoadAt(disk, p) == load_checkpoint(disk, p)

\* main: the resume request is resolved to (resume_state, resume_from_step),
\* or the process exits.  has_id: --workflow-id is given.
ResolveResume(disk, mode, step, path, has_id) ==
    CASE mode = "checkpoint_path" ->
           IF ~ReadFile(disk, path).exists THEN Exit(1, "missing_file")
           ELSE Loaded(load_checkpoint(disk, path), load_checkpoint(disk, path).step_name)
      [] mode \in { "resume", "resume_from_step" } /\ ~has_id -> Exit(1, "usage")
      [] mode = "resume_from_step" /\ has_id ->
           IF StepIndex(step) = 1
           THEN [ exit_code |-> -1, reason |-> "none", resume_state |-> NoState,
                  resume_from_step |-> step ]
           ELSE IF get_checkpoint_for_step(disk, step_order[StepIndex(step) - 1]) = NoPath
           THEN Exit(1, "missing_file")
           ELSE Loaded(LoadAt(disk, get_checkpoint_for_step(
                                        disk, step_order[StepIndex(step) - 1])), step)
      [] mode = "resume" /\ has_id ->
           IF get_latest_checkpoint(disk) = NoPath THEN Exit(1, "missing_file")
           ELSE AfterLatest(LoadAt(disk, get_latest_checkpoint(disk)))
      [] OTHER -> [ exit_code |-> -1, reason |-> "none", resume_state |-> NoState,
                    resume_from_step |-> "None" ]

\* What one process of main.py did.
CliRecord(mode, rr, code, reason, validated, started) ==
    [ mode |-> mode, exit_code |-> code, reason |-> reason,
      resume_state |-> rr.resume_state, resume_from_step |-> rr.resume_from_step,
      validated |-> validated, run_started |-> started ]

\* main after the resume request is resolved to rr: the input comes from the
\* loaded state or from the input file, is validated, and
\* run_workflow_with_callbacks is called inside try/except Exception, which
\* turns the TypeError of the call into exit code 1.
CallWorkflow(rr, mode, input_valid) ==
    IF rr.exit_code # -1
    THEN CliRecord(mode, rr, rr.exit_code, rr.reason, FALSE, FALSE)
    ELSE IF ~(IF rr.resume_state # NoState THEN rr.resume_state.valid_input
              ELSE input_valid)
    THEN CliRecord(mode, rr, 1, "invalid_input", FALSE, FALSE)
    ELSE IF ~AcceptsCall(RunWorkflowParams, MainCallKwargs)
    THEN CliRecord(mode, rr, 1, "call_raised", TRUE, FALSE)
    ELSE CliRecord(mode, rr, -1, "none", TRUE, TRUE)

\* --list-checkpoints: the checkpoints are listed and the process exits 0;
\* without --workflow-id it exits 1.
ListCheckpoints(disk, has_id) ==
    IF ~has_id THEN CliRecord("list_checkpoints", Exit(1, "usage"), 1, "usage", FALSE, FALSE)
    ELSE CliRecord("list_checkpoints", Exit(0, "listed"), 0, "listed", FALSE, FALSE)

main(disk, mode, step, path, input_valid, has_id) ==
    IF mode = "list_checkpoints" THEN ListCheckpoints(disk, has_id)
    ELSE CallWorkflow(ResolveResume(disk, mode, step, path, has_id), mode, input_valid)

\* The process of main.py has run with result r.
MainResult(r) ==
    /\ cli' = r
    /\ IF r.run_started
       THEN /\ st' = create_initial_state(TRUE)
            /\ pc' = "context_analyzer"
            /\ invoked' = << >>
            /\ failedAt' = 0
            /\ lastNode' = NoNode
            /\ final_state' = NoState
            /\ callback' = [ supplied |-> TRUE, calls |-> << >>, raised |-> FALSE ]
       ELSE UNCHANGED << st, pc, invoked, failedAt, lastNode, final_state, callback >>

\* python main.py [--resume | --resume-from-step step | --checkpoint-path path
\*                 | --list-checkpoints] [--workflow-id id]
\* in a process of its own, once per behaviour.
Main ==
    /\ pc \in { "idle", "END" }
    /\ cli = NoCli
    /\ reinvoke = NoReinvoke
    /\ \E mode \in CliModes, step \in Steps,
          path \in (DOMAIN files) \cup { LatestPath, MissingPath },
          input_valid \in BOOLEAN, has_id \in BOOLEAN :
         MainResult(main(Disk, mode, step, path, input_valid, has_id))
    /\ UNCHANGED << files, latest, clock, saved, ckptHistory, call, limiter, auto_checkpoint,
                    reinvoke >>

Next ==
    \/ StartRun
    \/ ContextAnalyzerStep
    \/ WebResearcherStep
    \/ StoryGeneratorStep
    \/ ScriptSegmenterStep
    \/ CharacterDesignerStep
    \/ VideoAssemblerStep
    \/ ReinvokeNode
    \/ Main

Spec == Init /\ [][Next]_vars

(***************************************************************************)
(* Properties of the workflow run and of the command line, checked under   *)
(* Spec.                                                                   *)
(***************************************************************************)
\* C1: after a node has returned a patch with status "failed" the
\* orchestrator halts: no later node is invoked in that run.
C1_HaltAfterFailure == failedAt # 0 => Len(invoked) = failedAt

\* C11: the final state run_workflow_with_callbacks returns holds every
\* ErrorRecord a node produced during the run, in order of occurrence.
C11_FinalStateHasAllErrors ==
    pc = "END" => ErrorsOf(RunResult) = st.errors

\* C13: in every run the nodes are invoked in the order of the six stages,
\* each at most once and only after all its predecessors; a failed stage is
\* not invoked again.
C13_FixedOrder ==
    /\ Len(invoked) <= Len(step_order)
    /\ \A i \in 1..Len(invoked) : invoked[i] = step_order[i]
    /\ pc \in Steps => StepIndex(pc) = Len(invoked) + 1
    /\ pc = "END" => invoked = step_order

\* C13, its case: a run in which a stage failed has ended, and all six nodes
\* were invoked once.
C13_Witness ==
    /\ pc = "END"
    /\ invoked = step_order
    /\ failedAt \in 1..(Len(step_order) - 1)

\* C14: a node invoked on a state that satisfies its skip condition calls
\* no agent, writes no checkpoint or artifact, and returns the skip fields
\* with the values of the state, the stage's nominal progress, the stage as
\* current_agent and as last_completed_step, and nothing else.
C14_SkipReturnsStateFields ==
    (reinvoke.node # "none" /\ SkipCondition(reinvoke.node, reinvoke.state)) =>
        /\ ~reinvoke.agent_called
        /\ ~reinvoke.wrote
        /\ DOMAIN reinvoke.patch =
              SkipFields(reinvoke.node)
                  \cup { "current_agent", "progress", "last_completed_step" }
        /\ \A k \in SkipFields(reinvoke.node) : reinvoke.patch[k] = reinvoke.state[k]
        /\ reinvoke.patch.progress = NominalProgress(reinvoke.node)
        /\ reinvoke.patch.current_agent = reinvoke.node
        /\ reinvoke.patch.last_completed_step = reinvoke.node

\* C14, its case: script_segmenter_node was invoked on a state that holds
\* segments.
C14_Witness ==
    /\ reinvoke.node = "script_segmenter"
    /\ SkipCondition("script_segmenter", reinvoke.state)
    /\ reinvoke.path = "skip"

\* C15: whatever the search and the LLM do, web_researcher_node returns no
\* status "failed", and once it has run research_results and
\* research_summary are not None.
C15_ResearchNeverFails ==
    /\ lastNode.node = "web_researcher" =>
          /\ lastNode.status # "failed"
          /\ st.status = "failed" => failedAt \in 1..(Len(invoked) - 1)
    /\ (Len(invoked) >= 2 /\ pc # "idle") =>
          (st.research_results # "None" /\ st.research_summary # "None")
    /\ reinvoke.node = "web_researcher" =>
          /\ "status" \notin DOMAIN reinvoke.patch
          /\ reinvoke.patch.research_results # "None"
          /\ reinvoke.patch.research_summary # "None"

\* C15, its case: something raised inside web_researcher_node (a write of
\* its checkpoint block) and the node returned from its handler.
C15_Witness ==
    /\ lastNode.node = "web_researcher"
    /\ lastNode.path = "error"
    /\ st.status = "running"
    /\ st.research_results = "Empty"

\* C24: a progress callback given to run_workflow_with_callbacks is called
\* exactly once for every stage that ran, in stage order; when it raises, the
\* exception does not leave the run: the stages that remain still run, up to
\* the last one.
C24_CallbackOncePerStage ==
    callback.supplied =>
        /\ callback.calls = invoked
        /\ pc \in Steps => StepIndex(pc) = Len(invoked) + 1
        /\ pc = "END" => callback.calls = step_order

\* C24 happens: the callback raised during a run and the run reached its end.
C24_Witness ==
    /\ callback.supplied
    /\ callback.raised
    /\ pc = "END"
    /\ Len(callback.calls) = Len(step_order)

\* C29: in every state of a run started from a fresh initial state,
\* status = "completed" implies a non-empty final_video_path and non-empty
\* generated_story, script_segments and scene_images.
C29_CompletedHasAllArtifacts ==
    (pc # "idle" /\ st.status = "completed") =>
        /\ Truthy(st.final_video_path)
        /\ Truthy(st.generated_story)
        /\ Truthy(st.script_segments)
        /\ Truthy(st.scene_images)

\* C29 happens: a run from a fresh state went through the six stages and
\* ended as completed.
C29_Witness ==
    /\ pc = "END"
    /\ cli = NoCli
    /\ Len(invoked) = 6
    /\ st.status = "completed"
    /\ st.last_completed_step = "video_assembler"

\* C30: across a run the progress of the workflow state stays within
\* [0.0, 1.0] (0 to 100 percent), never decreases from one stage to the
\* next, and is 1.0 only in states whose status is "completed".
C30_ProgressBoundedMonotone ==
    /\ [](pc # "idle" =>
            /\ st.progress >= 0
            /\ st.progress <= 100
            /\ st.progress = 100 => st.status = "completed")
    /\ [][(pc # "idle" /\ pc' # "idle") => st'.progress >= st.progress]_vars

\* C30 happens: a run reached 50 percent and then failed in the two stages
\* that followed.
C30_Witness ==
    /\ pc = "END"
    /\ cli = NoCli
    /\ Len(invoked) = 6
    /\ st.status = "failed"
    /\ st.progress = 50

\* C12: main exits with code 0 when the workflow run it made succeeded or
\* the checkpoints were listed (or nothing was left to resume), and with
\* code 1 when the arguments, the input or the checkpoint were missing or
\* invalid or the workflow run it made failed; a valid request does not end
\* with code 1 without a workflow run.
C12_ExitCodes ==
    /\ cli.exit_code = 0 => cli.reason \in { "completed", "listed", "already_completed" }
    /\ cli.exit_code = 1 =>
          cli.reason \in { "usage", "missing_file", "load_error", "invalid_input",
                           "workflow_failed", "interrupted" }

\* C2: in a run started from a fresh initial state, once a node has set
\* status "failed" the status is never set to "completed" afterwards, and
\* the status becomes "completed" only from "running", by
\* video_assembler_node, after assemble_video returned a video path.
C2_FailedNeverCompleted ==
    [][ (pc # "idle" /\ pc' # "idle") =>
          /\ (failedAt # 0 => st'.status # "completed")
          /\ (st'.status = "completed" /\ st.status # "completed") =>
                /\ st.status = "running"
                /\ lastNode'.node = "video_assembler"
                /\ lastNode'.path = "ok"
                /\ lastNode'.video = "Some" ]_vars

\* C2, its case: a node failed, the later nodes were invoked all the same,
\* video_assembler_node among them, and the run ended with status "failed".
C2_Witness ==
    /\ pc = "END"
    /\ failedAt # 0
    /\ failedAt < Len(invoked)
    /\ lastNode.node = "video_assembler"
    /\ st.status = "failed"

\* C3: a node invoked again on the state its own checkpoint holds takes the
\* skip path and does not call its agent.
C3_ReinvokeSkips ==
    reinvoke.node # "none" => (reinvoke.path = "skip" /\ ~reinvoke.agent_called)

\* C4: when main is run with a resume option, a checkpoint is loaded and the
\* input of its state is valid, the workflow run starts, from the loaded
\* state.
C4_ResumeStartsFromCheckpoint ==
    ( /\ cli.mode \in { "resume", "resume_from_step", "checkpoint_path" }
      /\ cli.resume_state # NoState
      /\ cli.validated )
        => (cli.run_started /\ st = cli.resume_state)

\* C5: with automatic checkpointing, a write of a node's checkpoint block
\* that raises makes the node return status "failed" and an ErrorRecord of
\* the node.
C5_WriteFailureFailsStage ==
    (auto_checkpoint /\ lastNode.write_raised) =>
        /\ lastNode.status = "failed"
        /\ st.errors # << >>
        /\ st.errors[Len(st.errors)].agent = lastNode.node

\* C6: with automatic checkpointing, a node that returns from its try block
\* without taking the skip path has saved a checkpoint under its step name
\* and has set last_completed_step to its step name.
C6_CompletionCheckpointed ==
    (auto_checkpoint /\ lastNode.path \in { "ok", "early" }) =>
        /\ lastNode.saved
        /\ \E f \in DOMAIN files : f[1] = lastNode.node
        /\ st.last_completed_step = lastNode.node

(***************************************************************************)
(* Properties of the checkpoint manager, checked under SpecCkpt.           *)
(***************************************************************************)
Min(a, b) == IF a <= b THEN a ELSE b

\* C7: after n save_checkpoint calls that all returned, with retention r,
\* exactly min(n, r) checkpoint files exist and they are the min(n, r) most
\* recently saved checkpoints, whatever the step names and the timing.
C7_RetentionKeepsMostRecent ==
    pristine =>
        LET k == Min(nsaves, retention)
        IN  /\ Cardinality(DOMAIN files) = k
            /\ { files[f].timestamp : f \in DOMAIN files }
                 = { saved[i] : i \in (nsaves - k + 1)..nsaves }

\* C8: after a save_checkpoint that returned, get_latest_checkpoint gives a
\* file whose content is the checkpoint saved last; pruning has neither
\* removed nor staled it.
C8_LatestIsLastSaved ==
    clean =>
        LET c == ReadFile(Disk, get_latest_checkpoint(Disk))
        IN  /\ Readable(c)
            /\ c.timestamp = lastSaved.timestamp
            /\ c.step_name = lastSaved.step
            /\ DOMAIN c.state = DOMAIN lastSaved.state

\* C8 happens: a save returned after pruning removed an older checkpoint and
\* after latest_checkpoint.json had been written by an earlier save.
C8_Witness ==
    /\ clean
    /\ Len(saved) > retention
    /\ Cardinality(DOMAIN files) <= retention
    /\ latest.exists

\* C9: loading the path save_checkpoint returned yields the saved step name
\* and a state holding every key of the saved state, and list_checkpoints
\* has an entry with that step name.
C9_RoundTrip ==
    clean =>
        LET ld  == load_checkpoint(Disk, lastSaved.path)
            cps == list_checkpoints(files)
        IN  /\ ~ld.raised
            /\ ld.step_name = lastSaved.step
            /\ DOMAIN lastSaved.state \subseteq DOMAIN ld.state
            /\ \E i \in 1..Len(cps) : cps[i].step_name = lastSaved.step

\* C9 happens: a state with Path values was saved and loads back as strings.
C9_Witness ==
    /\ clean
    /\ "final_video_path" \in DOMAIN lastSaved.state
    /\ lastSaved.state["final_video_path"].type = "Path"
    /\ ~load_checkpoint(Disk, lastSaved.path).raised
    /\ load_checkpoint(Disk, lastSaved.path).state["final_video_path"].type = "str"

\* C10 as claimed: every read operation raises when it meets a checkpoint
\* file that is missing, unreadable or lacks a required top-level key.
C10_EveryReadRaises == ckRes.bad => ckRes.raised

\* C10 as amended: load_checkpoint raises exactly when the file is missing,
\* unreadable or lacks a required key; list_checkpoints, get_latest_checkpoint
\* and get_checkpoint_for_step raise nothing, and the list holds exactly the
\* files json.load can read.
C10_LoadRaisesOthersSkip ==
    /\ ckRes.op = "load" => (ckRes.raised <=> ckRes.bad)
    /\ ckRes.op \in { "list", "get_latest", "get_checkpoint_for_step" } => ~ckRes.raised
    /\ LET cps == list_checkpoints(files)
       IN  { cps[i].path : i \in 1..Len(cps) }
             = { f \in DOMAIN files : Readable(files[f]) }

\* C10 happens: load_checkpoint was called on a file that is there but damaged.
C10_Witness ==
    /\ ckRes.op = "load"
    /\ ckRes.present
    /\ ckRes.bad
    /\ ckRes.raised

(***************************************************************************)
(* The input gate: validate_input (utils/validators.py) and                *)
(* ContextAnalyzerAgent.analyze (agents/context_analyzer.py), called       *)
(* directly.  A string value is "Text", "Blank" (whitespace only), "Empty" *)
(* (""), "NonStr" (a value that is not a str and is truthy, 7 say), "None" *)
(* or "Absent" (the key is missing).                                       *)
(***************************************************************************)
StrKinds == { "Absent", "None", "NonStr", "Empty", "Blank", "Text" }

\* One entry of characters: not a dict, a dict without "name", a dict
\* without "type", or a dict with both.
CharKinds == { "NotDict", "NoName", "NoType", "Ok" }

RECURSIVE SeqsUpTo(_, _)
SeqsUpTo(S, n) ==
    IF n = 0 THEN { << >> }
    ELSE LET shorter == SeqsUpTo(S, n - 1)
         IN  shorter \cup { Append(q, x) : q \in { r \in shorter : Len(r) = n - 1 },
                                           x \in S }

CharactersValues ==
    { [ kind |-> "Absent", items |-> << >> ], [ kind |-> "NotList", items |-> << >> ] }
      \cup { [ kind |-> "List", items |-> q ] : q \in SeqsUpTo(CharKinds, MaxChars) }

\* duration_minutes: missing, not an int, the bool True (an int in Python,
\* equal to 1), or an int.
DurationValues ==
    { [ kind |-> "Absent", value |-> 0 ], [ kind |-> "NonInt", value |-> 0 ],
      [ kind |-> "Bool", value |-> 1 ] }
      \cup { [ kind |-> "Int", value |-> n ] : n \in { 0, 1, 3, 10, 11 } }

\* The places of an input and the values each can hold.  type is the type
\* of input_data; context_type is the type of input_data["context"]: the
\* key is missing, None, a str (the JSON text of the context, not parsed)
\* or a dict.
InputFields ==
    { "type", "context_type", "topic", "theme", "characters", "setting",
      "moral_lesson", "age_group", "duration_minutes", "preferences" }

FieldValues(f) ==
    CASE f = "type"             -> { "NotDict", "Dict" }
      [] f = "context_type"     -> { "Absent", "None", "Str", "Dict" }
      [] f = "characters"       -> CharactersValues
      [] f = "duration_minutes" -> DurationValues
      [] f = "preferences"      -> { "Absent", "NotDict", "Dict" }
      [] OTHER                  -> StrKinds

\* The example input of the command line: every field well formed.
WellFormedInput ==
    [ type |-> "Dict", context_type |-> "Dict", topic |-> "Text", theme |-> "Text",
      characters |-> [ kind |-> "List", items |-> << "Ok", "Ok" >> ],
      setting |-> "Text", moral_lesson |-> "Text", age_group |-> "Text",
      duration_minutes |-> [ kind |-> "Int", value |-> 3 ],
      preferences |-> "Dict" ]

RECURSIVE InputsWithin(_)
InputsWithin(k) ==
    IF k = 0 THEN { WellFormedInput }
    ELSE UNION { { [ i EXCEPT ![f] = v ] : v \in FieldValues(f) } :
                 i \in InputsWithin(k - 1), f \in InputFields }

InputSamples == InputsWithin(MaxDefects)

\* The context fields validate_input requires, in the order it tests them.
required_fields == << "topic", "theme", "characters", "setting", "moral_lesson",
                      "age_group" >>

\* field in context, for a context that is a dict or the text of one.
HasField(input, f) ==
    CASE f = "characters"       -> input.characters.kind # "Absent"
      [] f = "duration_minutes" -> input.duration_minutes.kind # "Absent"
      [] OTHER                  -> input[f] # "Absent"

\* s.strip()
Strip(v) == IF v = "Blank" THEN "Empty" ELSE v

\* not isinstance(v, str) or not v.strip()
NotNonEmptyStr(v) == v \in { "NonStr", "None" } \/ Strip(v) = "Empty"

\* The index of the first character that fails its test, 0 if none does.
FirstBadCharacter(items) ==
    IF \E i \in 1..Len(items) : items[i] # "Ok"
    THEN CHOOSE i \in 1..Len(items) :
           /\ items[i] # "Ok"
           /\ \A j \in 1..(i - 1) : items[j] = "Ok"
    ELSE 0

Accepted == [ valid |-> TRUE, message |-> "None", raised |-> "None" ]
Rejected(msg) == [ valid |-> FALSE, message |-> msg, raised |-> "None" ]
\* validate_input returns nothing: the exception reaches its caller.
ValidateRaised(exc) == [ valid |-> FALSE, message |-> "None", raised |-> exc ]

\* The tests validate_input makes on a context that has every required field.
ValidateFields(input) ==
    IF NotNonEmptyStr(input.topic) THEN Rejected("Topic must be a non-empty string")
    ELSE IF NotNonEmptyStr(input.theme) THEN Rejected("Theme must be a non-empty string")
    ELSE IF input.characters.kind # "List" \/ Len(input.characters.items) = 0
    THEN Rejected("Characters must be a non-empty list")
    ELSE IF FirstBadCharacter(input.characters.items) # 0
    THEN IF input.characters.items[FirstBadCharacter(input.characters.items)] = "NotDict"
         THEN Rejected("Character must be a dictionary")
         ELSE Rejected("Character must have 'name' and 'type' fields")
    ELSE IF NotNonEmptyStr(input.setting)
    THEN Rejected("Setting must be a non-empty string")
    ELSE IF NotNonEmptyStr(input.moral_lesson)
    THEN Rejected("Moral lesson must be a non-empty string")
    \* the test of age_group is commented out (lines 67-72)
    ELSE IF /\ input.duration_minutes.kind # "Absent"
            /\ \/ input.duration_minutes.kind = "NonInt"
               \/ input.duration_minutes.value < 1
               \/ input.duration_minutes.value > 10
    THEN Rejected("Duration must be an integer between 1 and 10 minutes")
    ELSE IF input.preferences = "NotDict" THEN Rejected("Preferences must be a dictionary")
    ELSE Accepted

\* validate_input(input_data)
validate_input(input) ==
    IF input.type # "Dict" THEN Rejected("Input must be a dictionary")
    ELSE IF input.context_type = "Absent" THEN Rejected("Missing 'context' key in input")
    \* field not in None: TypeError, argument of type 'NoneType' is not iterable
    ELSE IF input.context_type = "None" THEN ValidateRaised("TypeError")
    ELSE IF \E i \in 1..Len(required_fields) : ~HasField(input, required_fields[i])
    THEN Rejected("Missing required field in context")
    \* context["topic"] on a str: TypeError, string indices must be integers
    ELSE IF input.context_type = "Str" THEN ValidateRaised("TypeError")
    ELSE ValidateFields(input)

\* What the call of the LLM chain does once the input is validated: the
\* prompt cannot be built (json.dumps raises), llm.invoke raises, the output
\* parser raises, or a parsed context comes back.
LlmOutcomes == { "ok", "prompt_raises", "invoke_raises", "parse_raises" }

\* context.get(key, default)
Get(v, default) == IF v = "Absent" THEN default ELSE v

\* if v: for a value of a string field
StrTruthy(v) == v \in { "NonStr", "Blank", "Text" }

\* _generate_fallback_queries(context): the templates it fills, in order.
generate_fallback_queries(input) ==
    (IF StrTruthy(Get(input.theme, "Empty"))
     THEN << "moral stories about {theme} for children", "teaching {theme} to kids" >>
     ELSE << >>)
    \o (IF StrTruthy(Get(input.age_group, "Text"))
        THEN << "age-appropriate stories for {age_group} year olds" >>
        ELSE << >>)
    \o (IF StrTruthy(Get(input.moral_lesson, "Empty"))
        THEN << "children's stories about {moral_lesson}" >>
        ELSE << >>)

\* analyze raised: nothing is returned.
AnalyzeRaised(exc, called) ==
    [ raised |-> exc, llm_called |-> called, returned |-> "None",
      theme |-> "None", characters |-> [ kind |-> "Absent", items |-> << >> ],
      setting |-> "None", moral_lesson |-> "None", age_group |-> "None",
      duration_minutes |-> [ kind |-> "Absent", value |-> 0 ],
      search_queries |-> << >> ]

\* The result built from the parsed output of the LLM.
AnalyzeParsed ==
    [ raised |-> "None", llm_called |-> TRUE, returned |-> "llm",
      theme |-> "Text", characters |-> [ kind |-> "List", items |-> << "Ok" >> ],
      setting |-> "Text", moral_lesson |-> "Text", age_group |-> "Text",
      duration_minutes |-> [ kind |-> "Int", value |-> 3 ],
      search_queries |-> << "llm query" >> ]

\* llm.invoke was reached when the chain failed in it or after it.
LlmReached(llm) == llm \in { "ok", "invoke_raises", "parse_raises" }

\* A variant of the except branch of analyze that lets the failure through.
AnalyzeReraises(input, llm) == AnalyzeRaised("Exception", LlmReached(llm))

\* The except branch of analyze: the raw fields and the fallback queries.
AnalyzeFallback(input, llm) ==
    [ raised |-> "None", llm_called |-> LlmReached(llm), returned |-> "fallback",
      theme |-> Get(input.theme, "Empty"),
      characters |-> IF input.characters.kind = "Absent"
                     THEN [ kind |-> "List", items |-> << >> ]
                     ELSE input.characters,
      setting |-> Get(input.setting, "Empty"),
      moral_lesson |-> Get(input.moral_lesson, "Empty"),
      age_group |-> Get(input.age_group, "Text"),
      duration_minutes |-> IF input.duration_minutes.kind = "Absent"
                           THEN [ kind |-> "Int", value |-> 3 ]
                           ELSE input.duration_minutes,
      search_queries |-> generate_fallback_queries(input) ]

\* ContextAnalyzerAgent.analyze(input_data)
analyze(input, llm) ==
    IF validate_input(input).raised # "None"
    THEN AnalyzeRaised(validate_input(input).raised, FALSE)
    ELSE IF ~validate_input(input).valid THEN AnalyzeRaised("ValueError", FALSE)
    ELSE IF llm = "ok" THEN AnalyzeParsed
    ELSE AnalyzeFallback(input, llm)

\* A caller calls validate_input(input_data).
ValidateInput ==
    /\ call.fn = "none"
    /\ \E input \in InputSamples :
         call' = [ fn |-> "validate_input", input |-> input, llm |-> "none",
                   result |-> validate_input(input) ]
    /\ UNCHANGED << ckptVars, auto_checkpoint, pc, st, invoked, failedAt, lastNode,
                    reinvoke, cli, final_state, callback, limiter >>

\* A caller calls ContextAnalyzerAgent().analyze(input_data).
Analyze ==
    /\ call.fn = "none"
    /\ \E input \in InputSamples, llm \in LlmOutcomes :
         call' = [ fn |-> "analyze", input |-> input, llm |-> llm,
                   result |-> analyze(input, llm) ]
    /\ UNCHANGED << ckptVars, auto_checkpoint, pc, st, invoked, failedAt, lastNode,
                    reinvoke, cli, final_state, callback, limiter >>

InputNext ==
    \/ ValidateInput
    \/ Analyze

\* The process makes one direct call; no workflow runs in it.
InitInput == Init /\ auto_checkpoint = TRUE

SpecInput == InitInput /\ [][InputNext]_vars

(***************************************************************************)
(* Properties of the input gate, checked under SpecInput.                  *)
(***************************************************************************)
\* C16: analyze raises exactly when validate_input does not accept the input
\* (it rejects it, or fails on it), and it has then made no LLM call; once
\* the input is accepted, a failure of the prompt, of the LLM call or of the
\* parser gives a returned context that holds the raw fields of the input and
\* between one and four fallback queries, never an exception.
C16_AnalyzeRaisesOnlyOnInvalidInput ==
    call.fn = "analyze" =>
        /\ (call.result.raised # "None") <=> ~validate_input(call.input).valid
        /\ call.result.raised # "None" => ~call.result.llm_called
        /\ (validate_input(call.input).valid /\ call.llm # "ok") =>
              /\ call.result.returned = "fallback"
              /\ call.result.theme = call.input.theme
              /\ call.result.characters = call.input.characters
              /\ call.result.setting = call.input.setting
              /\ call.result.moral_lesson = call.input.moral_lesson
              /\ call.result.age_group = call.input.age_group
              /\ Len(call.result.search_queries) \in 1..4
              /\ call.result.search_queries[1] = "moral stories about {theme} for children"

\* C16 happens: the input was accepted, llm.invoke raised and analyze
\* returned the fallback context.
C16_Witness ==
    /\ call.fn = "analyze"
    /\ call.llm = "invoke_raises"
    /\ validate_input(call.input).valid
    /\ call.result.raised = "None"
    /\ call.result.llm_called
    /\ call.result.returned = "fallback"

\* A non-empty string: a str of one character or more.
NonEmptyStr(v) == v \in { "Text", "Blank" }

\* C17: validate_input accepts an input only if its context holds topic,
\* theme, setting, moral_lesson and age_group as non-empty strings,
\* characters as a non-empty list of mappings that each have name and type
\* and, if present, duration_minutes as an integer from 1 to 10; every input
\* it does not accept is rejected with a message.
C17_AcceptsOnlyWellFormed ==
    call.fn = "validate_input" =>
        /\ call.result.valid =>
              /\ call.input.type = "Dict"
              /\ call.input.context_type = "Dict"
              /\ \A f \in { "topic", "theme", "setting", "moral_lesson", "age_group" } :
                    NonEmptyStr(call.input[f])
              /\ call.input.characters.kind = "List"
              /\ Len(call.input.characters.items) > 0
              /\ \A i \in 1..Len(call.input.characters.items) :
                    call.input.characters.items[i] = "Ok"
              /\ call.input.duration_minutes.kind # "Absent" =>
                    /\ call.input.duration_minutes.kind \in { "Int", "Bool" }
                    /\ call.input.duration_minutes.value \in 1..10
        /\ ~call.result.valid =>
              /\ call.result.raised = "None"
              /\ call.result.message # "None"

(***************************************************************************)
(* ScriptSegmentationAgent.segment (agents/script_segmenter.py), called    *)
(* directly.  A story is the sequence of its paragraphs, each the number   *)
(* of its words; all words of a story differ and have the same length, so  *)
(* that a count of words is also the count of distinct words and of        *)
(* characters.  A segment narrates the paragraphs first..last of the story *)
(* (none when first > last).  A duration in seconds is an exact fraction   *)
(* num / den.                                                              *)
(***************************************************************************)
\* The stories: n paragraphs, the first h of a words and the others of b.
StorySamples ==
    { [ i \in 1..n |-> IF i <= h THEN a ELSE b ] :
        n \in 0..MaxParagraphs, h \in 0..MaxParagraphs, a \in 1..MaxWords,
        b \in 1..MaxWords }

\* The durations in seconds the LLM proposes for a segment.
LlmDurations == { 2, 6, 30 }

\* What the LLM chain of segment does: it raises (the call or the parser),
\* or it answers with one segment per proposed duration, which together
\* narrate the first kept paragraphs of the story, split evenly.
LlmSegmentations(story) ==
    { [ raises |-> TRUE, durations |-> << >>, kept |-> 0 ] }
      \cup { [ raises |-> FALSE, durations |-> d, kept |-> k ] :
               d \in SeqsUpTo(LlmDurations, MaxSegments) \ { << >> },
               k \in 0..Len(story) }

\* target_duration_minutes, or context.get("duration_minutes", 3) for None.
TargetMinutes == { 1, 3 }

Frac(n, d) == [ num |-> n, den |-> d ]

\* max(4.0, min(8.0, d))
Clamp(d) ==
    IF d.num < 4 * d.den THEN Frac(4, 1)
    ELSE IF d.num > 8 * d.den THEN Frac(8, 1)
    ELSE d

\* The words of the paragraphs from..to of the story.
RECURSIVE WordsIn(_, _, _)
WordsIn(story, from, to) ==
    IF from > to THEN 0 ELSE story[from] + WordsIn(story, from + 1, to)

\* The words the narrations of the segments hold, joined in order.
RECURSIVE NarrationWords(_, _)
NarrationWords(segments, story) ==
    IF segments = << >> THEN 0
    ELSE WordsIn(story, Head(segments).first, Head(segments).last)
           + NarrationWords(Tail(segments), story)

\* a + b
FracAdd(a, b) ==
    IF a.den = b.den THEN Frac(a.num + b.num, a.den)
    ELSE Frac(a.num * b.den + b.num * a.den, a.den * b.den)

\* sum(seg.get("duration_seconds", 5.0) for seg in segments)
RECURSIVE TotalDuration(_)
TotalDuration(segments) ==
    IF segments = << >> THEN Frac(0, 1)
    ELSE FracAdd(Head(segments).duration, TotalDuration(Tail(segments)))

\* The segments built from the parsed answer of the LLM.
ParsedSegments(llm) ==
    [ j \in 1..Len(llm.durations) |->
        [ first |-> (((j - 1) * llm.kept) \div Len(llm.durations)) + 1,
          last |-> (j * llm.kept) \div Len(llm.durations),
          duration |-> Frac(llm.durations[j], 1) ] ]

\* _validate_story_coverage(segments, original_story)
validate_story_coverage(segments, story) ==
    /\ NarrationWords(segments, story) > 0
    /\ WordsIn(story, 1, Len(story)) > 0
    \* coverage >= 0.85
    /\ 100 * NarrationWords(segments, story) >= 85 * WordsIn(story, 1, Len(story))
    \* char_ratio >= 0.75
    /\ 100 * NarrationWords(segments, story) >= 75 * WordsIn(story, 1, Len(story))

\* The number of segments _fallback_segmentation makes.
FallbackCount(story) ==
    IF Len(story) < max_fallback_segments THEN Len(story) ELSE max_fallback_segments

\* _fallback_segmentation(story, context, target_duration_minutes): one
\* segment per paragraph; the division raises ZeroDivisionError for a story
\* without paragraphs.
fallback_segmentation(story, target) ==
    IF FallbackCount(story) = 0
    THEN [ raised |-> "ZeroDivisionError", segments |-> << >> ]
    ELSE [ raised |-> "None",
           segments |-> [ i \in 1..FallbackCount(story) |->
                            [ first |-> i, last |-> i,
                              duration |-> Clamp(Frac(target * 60,
                                                      FallbackCount(story))) ] ] ]

\* Every duration is scaled by target / total and clamped.
ScaledDurations(segments, target, total) ==
    [ j \in 1..Len(segments) |->
        [ segments[j] EXCEPT
            !.duration = IF total.num > 0
                         THEN Clamp(Frac(@.num * target * 60 * total.den,
                                         @.den * total.num))
                         ELSE Clamp(@) ] ]

\* abs(total_duration - target_duration_seconds) < 10
CloseToTarget(total, target) ==
    /\ total.num - target * 60 * total.den < 10 * total.den
    /\ target * 60 * total.den - total.num < 10 * total.den

\* _validate_durations(segments, target_duration_minutes)
validate_durations(segments, target) ==
    IF CloseToTarget(TotalDuration(segments), target) THEN segments
    ELSE ScaledDurations(segments, target, TotalDuration(segments))

\* ScriptSegmentationAgent.segment(story, context, target_duration_minutes)
segment(story, target, llm) ==
    IF llm.raises THEN fallback_segmentation(story, target)
    ELSE IF validate_story_coverage(ParsedSegments(llm), story)
    THEN [ raised |-> "None",
           segments |-> validate_durations(ParsedSegments(llm), target) ]
    \* a fallback that raises inside try is run again by the handler
    ELSE IF fallback_segmentation(story, target).raised # "None"
    THEN fallback_segmentation(story, target)
    ELSE [ raised |-> "None",
           segments |-> validate_durations(fallback_segmentation(story, target).segments,
                                           target) ]

(***************************************************************************)
(* The clips of the video: video_assembler_node (graph/nodes.py) and       *)
(* VideoAssemblyAgent.assemble_video (agents/video_assembler.py).  A scene *)
(* image is known by the segment it was generated for; the script segments *)
(* are 1..n.                                                               *)
(***************************************************************************)
\* An entry of scene_images: None (the generation failed), the path of a
\* file that is no longer there, or the path of the image.
ImageKinds == { "None", "Gone", "Image" }

\* state["scene_images"] for n segments: one entry per segment, in segment
\* order, or [] when generate_scene_images raised.
SceneImages(n) ==
    { << >> } \cup
    { [ i \in 1..n |-> [ segment |-> i, kind |-> k[i] ] ] : k \in [ 1..n -> ImageKinds ] }

IsPath(img) == img.kind # "None"
Exists(img) == img.kind = "Image"

\* [Path(img) for img in scene_images if img]
scene_image_paths(scene_images) == SelectSeq(scene_images, IsPath)

\* assemble_video(scene_images, script_segments, ...): the clips of the
\* video, each the image it shows and the segment whose narration and
\* duration it uses; no clips when it returns None.
assemble_video(images, n) ==
    [ i \in 1..(IF Len(SelectSeq(images, Exists)) < n
                THEN Len(SelectSeq(images, Exists)) ELSE n) |->
        [ image |-> SelectSeq(images, Exists)[i].segment, segment |-> i ] ]

\* What video_assembler_node does with the scene images of the state.
AssembleClips(scene_images, n) ==
    IF scene_image_paths(scene_images) = << >>
    THEN [ status |-> "failed", clips |-> << >> ]
    ELSE IF assemble_video(scene_image_paths(scene_images), n) = << >>
    THEN [ status |-> "failed", clips |-> << >> ]
    ELSE [ status |-> "completed",
           clips |-> assemble_video(scene_image_paths(scene_images), n) ]

\* A caller calls ScriptSegmentationAgent().segment(story, context, target).
Segment ==
    /\ call.fn = "none"
    /\ \E story \in StorySamples, target \in TargetMinutes :
         \E llm \in LlmSegmentations(story) :
           call' = [ fn |-> "segment", story |-> story, target |-> target,
                     llm |-> llm, result |-> segment(story, target, llm) ]
    /\ UNCHANGED << ckptVars, auto_checkpoint, pc, st, invoked, failedAt, lastNode,
                    reinvoke, cli, final_state, callback, limiter >>

\* video_assembler_node runs on a state with n script segments and the scene
\* images the character designer left.
AssembleVideo ==
    /\ call.fn = "none"
    /\ \E n \in 1..MaxScenes :
         \E scene_images \in SceneImages(n) :
           call' = [ fn |-> "assemble_video", script_segments |-> n,
                     scene_images |-> scene_images,
                     result |-> AssembleClips(scene_images, n) ]
    /\ UNCHANGED << ckptVars, auto_checkpoint, pc, st, invoked, failedAt, lastNode,
                    reinvoke, cli, final_state, callback, limiter >>

(***************************************************************************)
(* The narration of the clips and the output path of                       *)
(* VideoAssemblyAgent.assemble_video.  The narration of a segment is       *)
(* "Empty" ("" or whitespace), "Short" (under 20 words) or "Long"; the     *)
(* story is "Empty" or "Text".  Every scene image is on disk.              *)
(***************************************************************************)
NarrationKinds == { "Empty", "Short", "Long" }

\* What speech synthesis does for one text: a file with a duration, a file
\* whose duration cannot be read, or a failure of the backend.
TtsOutcomes == { "ok", "no_duration", "fails" }

\* The script segments: for each its narration and what synthesis would do.
NarratedSegments ==
    UNION { [ 1..n -> [ narration : NarrationKinds, tts : TtsOutcomes ] ] :
            n \in 1..MaxScenes }

\* _get_segment_narration_text(segment, story_chunk, segment_index): a chunk
\* of a story with text has text.
get_segment_narration_text(narration, story) ==
    IF narration = "Long" THEN "Long" ELSE story

\* _generate_gtts_narration(text, output_path), also the end of
\* _generate_elevenlabs_narration after a failure: one attempt, None for a
\* failure.
generate_gtts_narration_once(tts) == IF tts = "fails" THEN "None" ELSE "audio_path"

\* One turn of the loop of assemble_video for a segment: whether its text
\* went to speech synthesis, the audio of its clip and where the duration of
\* the clip comes from.
NarratedClip(seg, story, narration_on) ==
    IF ~narration_on \/ get_segment_narration_text(seg.narration, story) = "Empty"
    THEN [ narration |-> seg.narration, sent_to_tts |-> FALSE, tts |-> seg.tts,
           audio |-> "None", duration |-> "duration_seconds" ]
    ELSE IF generate_gtts_narration_once(seg.tts) # "None" /\ seg.tts = "ok"
    THEN [ narration |-> seg.narration, sent_to_tts |-> TRUE, tts |-> seg.tts,
           audio |-> "audio_path", duration |-> "audio" ]
    ELSE [ narration |-> seg.narration, sent_to_tts |-> TRUE, tts |-> seg.tts,
           audio |-> "None", duration |-> "duration_seconds" ]

\* The path create_final_video is given: the loop assigns the path of each
\* audio file to output_path, the parameter; only a None is replaced by the
\* default file name.
FinalOutputPath(output_path, clips, workflow_id) ==
    IF \E i \in 1..Len(clips) : clips[i].sent_to_tts
    THEN "segment_<scene_number>_narration.mp3"
    ELSE IF output_path # "None" THEN output_path
    ELSE IF workflow_id THEN "moral_video_<workflow_id>.mp4"
    ELSE "moral_video_<timestamp>.mp4"

\* assemble_video(...) from the narration loop on; video_assembler_node
\* completes the workflow exactly when a path comes back.
assemble_narrated(segments, story, narration_on, output_path, workflow_id, built) ==
    [ clips |-> [ i \in 1..Len(segments) |->
                    NarratedClip(segments[i], story, narration_on) ],
      final_video_path |->
          IF built
          THEN FinalOutputPath(output_path,
                               [ i \in 1..Len(segments) |->
                                   NarratedClip(segments[i], story, narration_on) ],
                               workflow_id)
          ELSE "None",
      status |-> IF built THEN "completed" ELSE "failed" ]

\* assemble_video is called with script segments, a story, the narration
\* preference, an output path or None, and a workflow id or none; the video
\* tool builds the video or gives None.
AssembleNarration ==
    /\ call.fn = "none"
    /\ \E segments \in NarratedSegments, story \in { "Empty", "Text" },
          narration_on \in BOOLEAN, output_path \in { "None", "out.mp4" },
          workflow_id \in BOOLEAN, built \in BOOLEAN :
         call' = [ fn |-> "assemble_narration", segments |-> segments,
                   story |-> story, narration |-> narration_on,
                   output_path |-> output_path, workflow_id |-> workflow_id,
                   result |-> assemble_narrated(segments, story, narration_on,
                                                output_path, workflow_id, built) ]
    /\ UNCHANGED << ckptVars, auto_checkpoint, pc, st, invoked, failedAt, lastNode,
                    reinvoke, cli, final_state, callback, limiter >>

AgentsNext ==
    \/ Segment
    \/ AssembleVideo
    \/ AssembleNarration

SpecAgents == InitInput /\ [][AgentsNext]_vars

(***************************************************************************)
(* Properties of the agents, checked under SpecAgents.                     *)
(***************************************************************************)
\* C18: every segment list segment returns, from the LLM or from the fallback
\* segmentation, has narrations that together hold at least 85% of the words
\* of the story and at least 75% of its characters.
C18_ReturnedSegmentsCoverStory ==
    (call.fn = "segment" /\ call.result.raised = "None") =>
        /\ 100 * NarrationWords(call.result.segments, call.story)
             >= 85 * WordsIn(call.story, 1, Len(call.story))
        /\ 100 * NarrationWords(call.result.segments, call.story)
             >= 75 * WordsIn(call.story, 1, Len(call.story))

\* C19: every segment that segment returns has a duration_seconds from 4.0
\* to 8.0, whatever durations the LLM proposed and whatever the target.
C19_DurationsWithinRange ==
    (call.fn = "segment" /\ call.result.raised = "None") =>
        \A j \in 1..Len(call.result.segments) :
            /\ 4 * call.result.segments[j].duration.den
                 <= call.result.segments[j].duration.num
            /\ call.result.segments[j].duration.num
                 <= 8 * call.result.segments[j].duration.den

\* C20: in the assembled video, clip i shows the image that was generated
\* for the segment whose narration and duration clip i uses, whichever scene
\* images are present and absent.
C20_ClipsKeepSegmentImage ==
    call.fn = "assemble_video" =>
        \A i \in 1..Len(call.result.clips) :
            call.result.clips[i].image = call.result.clips[i].segment

\* C21: when narration is requested and speech synthesis fails for a segment
\* that has narration text, the failure is raised: the workflow never
\* completes with a video that lacks the narration of that segment.
C21_TtsFailureNeverCompletes ==
    (call.fn = "assemble_narration" /\ call.narration) =>
        \A i \in 1..Len(call.segments) :
            (/\ call.segments[i].narration # "Empty"
             /\ call.result.clips[i].sent_to_tts
             /\ call.segments[i].tts = "fails") =>
                call.result.status # "completed"

\* C22: with a known workflow id and no explicit output path, the final video
\* is written to moral_video_<workflow_id>.mp4, with narration enabled or
\* disabled and for any number of segments.
C22_DefaultOutputFileName ==
    (/\ call.fn = "assemble_narration"
     /\ call.workflow_id
     /\ call.output_path = "None"
     /\ call.result.status = "completed") =>
        call.result.final_video_path = "moral_video_<workflow_id>.mp4"

\* C25: with narration enabled, a segment whose narration text is empty is
\* never sent to a TTS backend; its clip has no audio and uses the nominal
\* duration_seconds of the segment.
C25_EmptyNarrationSkipsTts ==
    (call.fn = "assemble_narration" /\ call.narration) =>
        \A i \in 1..Len(call.segments) :
            call.segments[i].narration = "Empty" =>
                /\ ~call.result.clips[i].sent_to_tts
                /\ call.result.clips[i].audio = "None"
                /\ call.result.clips[i].duration = "duration_seconds"

(***************************************************************************)
(* The rate limiter of WebSearchTool (tools/search_tool.py).  Times are in *)
(* tenths of a second; the searches of one tool come one after the other.  *)
(***************************************************************************)
\* The time between the end of one search and the arrival of the next.
ArrivalGaps == { 0, 350 }

\* [call_time for call_time in self.calls if now - call_time < self.time_window]
RecentCalls(calls, now) ==
    SelectSeq(calls, LAMBDA call_time : now - call_time < time_window)

\* min(self.calls)
OldestCall(calls) ==
    CHOOSE t \in { calls[i] : i \in 1..Len(calls) } :
        \A i \in 1..Len(calls) : t <= calls[i]

\* A variant of WaitTime for a limiter that never sleeps.
WaitTimeNone(calls, now) == 0

\* The time wait_if_needed sleeps, given self.calls after the first clean-up:
\* self.time_window - (now - oldest_call) + 0.1 at the limit, nothing under it.
WaitTime(calls, now) ==
    IF Len(calls) >= max_calls /\ time_window - (now - OldestCall(calls)) + 1 > 0
    THEN time_window - (now - OldestCall(calls)) + 1
    ELSE 0

\* RateLimiter.wait_if_needed() of a call arriving at now, with the sleep
\* w it makes: the second clean-up runs only after a sleep.
wait_if_needed(rl, now, w) ==
    [ calls |-> Append(IF w > 0 THEN RecentCalls(RecentCalls(rl.calls, now), now + w)
                       ELSE RecentCalls(rl.calls, now),
                       now + w),
      now |-> now + w,
      admitted |-> Append(rl.admitted, now + w),
      inside |-> Len(RecentCalls(rl.calls, now)),
      waited |-> w ]

\* WebSearchTool.search(query) with a configured backend: the call waits in
\* the rate limiter and then goes to the backend.
Search ==
    /\ Len(limiter.admitted) < MaxSearches
    /\ \E gap \in ArrivalGaps :
         limiter' = wait_if_needed(limiter, limiter.now + gap,
                                   WaitTime(RecentCalls(limiter.calls, limiter.now + gap),
                                            limiter.now + gap))
    /\ UNCHANGED << ckptVars, auto_checkpoint, pc, st, invoked, failedAt, lastNode,
                    reinvoke, cli, final_state, call, callback >>

SearchNext ==
    \/ Search

SpecSearch == InitInput /\ [][SearchNext]_vars

(***************************************************************************)
(* Properties of the rate limiter, checked under SpecSearch.               *)
(***************************************************************************)
\* C23: of the calls one WebSearchTool admits, at most 10 lie in any window
\* of 60 seconds; a call that finds 10 calls inside the window waits until
\* the oldest of them has left it, and no longer, and is then admitted; a
\* call that finds fewer is admitted at once.
C23_AtMostTenPerWindow ==
    /\ \A i \in 1..Len(limiter.admitted) :
          i + max_calls <= Len(limiter.admitted) =>
              limiter.admitted[i + max_calls] - limiter.admitted[i] >= time_window
    /\ limiter.waited > 0 <=> limiter.inside >= max_calls
    /\ limiter.waited <= time_window + 1
    /\ Len(limiter.calls) <= max_calls
    /\ Len(limiter.admitted) > 0 =>
          limiter.admitted[Len(limiter.admitted)] = limiter.now

\* C23 happens: a call found 10 calls inside the window, waited and was
\* admitted.
C23_Witness ==
    /\ limiter.inside >= max_calls
    /\ limiter.waited > 0
    /\ Len(limiter.admitted) > max_calls

(***************************************************************************)
(* AudioTool.generate_gtts_narration (tools/audio_tool.py), called         *)
(* directly.  An attempt gives a file with content ("ok"), an empty or     *)
(* missing file ("empty"), or gTTS raises ("raises").                      *)
(***************************************************************************)
AttemptOutcomes == { "ok", "empty", "raises" }

\* A variant of FileHasContent that takes any file gTTS saved.
AnyFileAccepted(outcome) == outcome # "raises"

\* output_path.exists() and output_path.stat().st_size > 0
FileHasContent(outcome) == outcome = "ok"

\* The loop of generate_gtts_narration from attempt on, after slept seconds
\* of sleep: what tts.save gives at each attempt is outcomes.
RECURSIVE GttsAttempts(_, _, _)
GttsAttempts(outcomes, attempt, slept) ==
    IF attempt > max_retries
    THEN [ returned |-> "None", raised |-> FALSE, attempts |-> attempt - 1,
           slept |-> slept ]
    ELSE IF FileHasContent(outcomes[attempt])
    THEN [ returned |-> "output_path", raised |-> FALSE, attempts |-> attempt,
           slept |-> slept ]
    ELSE IF attempt >= max_retries
    THEN [ returned |-> "None", raised |-> TRUE, attempts |-> attempt,
           slept |-> slept ]
    ELSE GttsAttempts(outcomes, attempt + 1, slept + retry_delay)

\* AudioTool.generate_gtts_narration(text, output_path); the import of gtts
\* at its top raises when the package is missing.
generate_gtts_narration(installed, outcomes) ==
    IF ~installed
    THEN [ returned |-> "None", raised |-> TRUE, attempts |-> 0, slept |-> 0 ]
    ELSE GttsAttempts(outcomes, 1, 0)

\* A caller calls AudioTool().generate_gtts_narration(text, output_path).
GenerateGttsNarration ==
    /\ call.fn = "none"
    /\ \E installed \in BOOLEAN, outcomes \in [ 1..max_retries -> AttemptOutcomes ] :
         call' = [ fn |-> "generate_gtts_narration", installed |-> installed,
                   outcomes |-> outcomes,
                   result |-> generate_gtts_narration(installed, outcomes) ]
    /\ UNCHANGED << ckptVars, auto_checkpoint, pc, st, invoked, failedAt, lastNode,
                    reinvoke, cli, final_state, callback, limiter >>

AudioNext ==
    \/ GenerateGttsNarration

SpecAudio == InitInput /\ [][AudioNext]_vars

ErrorAgents == { "web_researcher", "story_generator" }

ErrorRecords ==
    { [ agent |-> a ] : a \in ErrorAgents }
    \cup { [ agent |-> a, retry_count |-> n ] : a \in ErrorAgents, n \in 0..MaxRetryCount }

\* last_error.get("retry_count", 0)
RetryCountOf(e) == IF "retry_count" \in DOMAIN e THEN e.retry_count ELSE 0

\* should_retry(state), errors being state.get("errors", []).
should_retry(errors) ==
    IF errors = << >> THEN "continue"
    ELSE IF RetryCountOf(errors[Len(errors)]) >= retry_max_retries THEN "fail"
    ELSE "retry"

\* The retry_counts a state can hold.
RetryCountsValues ==
    { [ kind |-> "absent" ], [ kind |-> "None" ] }
    \cup { [ kind |-> "dict", counts |-> f ] :
             f \in UNION { [ A -> 0..MaxRetryCount ] : A \in SUBSET ErrorAgents } }

\* retry_counts[agent_name] = retry_count
SetCount(counts, agent_name, retry_count) ==
    [ a \in DOMAIN counts \cup { agent_name } |->
        IF a = agent_name THEN retry_count ELSE counts[a] ]

\* state.get("retry_counts", {}) or {}: the dict of the state when it has
\* entries, a new empty dict otherwise.
IsStateDict(rc) == rc.kind = "dict" /\ DOMAIN rc.counts # {}

\* add_error(state, agent_name, error_type, error_message, retry_count): the
\* patch it returns and the retry_counts of the state after the call.
add_error_call(rc, agent_name, retry_count) ==
    LET retry_counts == IF IsStateDict(rc) THEN rc.counts ELSE << >>
        updated == SetCount(retry_counts, agent_name, retry_count)
    IN  [ patch |-> [ errors       |-> << [ agent |-> agent_name,
                                            retry_count |-> retry_count ] >>,
                      retry_counts |-> updated ],
          state_after |-> IF IsStateDict(rc)
                          THEN [ kind |-> "dict", counts |-> updated ]
                          ELSE rc ]

\* A caller calls should_retry(state).
ShouldRetry ==
    /\ call.fn = "none"
    /\ \E errors \in SeqsUpTo(ErrorRecords, MaxErrors) :
         call' = [ fn |-> "should_retry", errors |-> errors,
                   result |-> should_retry(errors) ]
    /\ UNCHANGED << ckptVars, auto_checkpoint, pc, st, invoked, failedAt, lastNode,
                    reinvoke, cli, final_state, callback, limiter >>

\* A caller calls add_error(state, agent_name, ..., retry_count).
AddError ==
    /\ call.fn = "none"
    /\ \E rc \in RetryCountsValues, agent_name \in ErrorAgents,
          retry_count \in 0..MaxRetryCount :
         call' = [ fn |-> "add_error", retry_counts |-> rc,
                   agent_name |-> agent_name, retry_count |-> retry_count,
                   result |-> add_error_call(rc, agent_name, retry_count) ]
    /\ UNCHANGED << ckptVars, auto_checkpoint, pc, st, invoked, failedAt, lastNode,
                    reinvoke, cli, final_state, callback, limiter >>

StateNext ==
    \/ ShouldRetry
    \/ AddError

SpecState == InitInput /\ [][StateNext]_vars

(***************************************************************************)
(* Properties of the state helpers, checked under SpecState.               *)
(***************************************************************************)
\* C27: for every state should_retry gives "fail" when the retry count of
\* the most recent ErrorRecord is at least the configured maximum and
\* "retry" otherwise, and never a value other than "retry" or "fail".
C27_ShouldRetryRetryOrFail ==
    call.fn = "should_retry" =>
        /\ call.result \in { "retry", "fail" }
        /\ call.result = "fail" <=>
              /\ call.errors # << >>
              /\ RetryCountOf(call.errors[Len(call.errors)]) >= 3

\* C28: for every input state add_error returns a patch of one new
\* ErrorRecord and the updated retry counts, and the state it was given is
\* after the call what it was before, its retry_counts mapping included.
C28_AddErrorLeavesStateUnchanged ==
    call.fn = "add_error" =>
        /\ Len(call.result.patch.errors) = 1
        /\ call.result.patch.errors[1].agent = call.agent_name
        /\ call.result.patch.retry_counts[call.agent_name] = call.retry_count
        /\ call.result.state_after = call.retry_counts

====
